---- MODULE Spec2Model ----
(***************************************************************************)
(* Model of the page-state engine of s3fs (src/src/fdcache_page.cpp):      *)
(* the PageList of one open file, its mutating operations and the          *)
(* multipart-upload planner.  Offsets and sizes are byte counts (off_t);   *)
(* the model explores them over small ranges.                              *)
(***************************************************************************)
EXTENDS Integers, Sequences, FiniteSets, TLC

VARIABLES pages, is_shrink, last

\* The worker pool (src/src/threadpoolman.cpp): the members of ThreadPoolMan,
\* the position of every thread in its code, and what has happened to the jobs.
VARIABLES is_exit, thpoolman_sem, instruction_list, thread_list_lock, thread_list,
          worker, stopper, client, await_sem, pushed, dequeued, finished

poolvars == <<is_exit, thpoolman_sem, instruction_list, thread_list_lock, thread_list,
              worker, stopper, client, await_sem, pushed, dequeued, finished>>

vars == <<pages, is_shrink, last, poolvars>>

\* ------------------------------------------------------------------ bounds
\* Largest file size (and offset) of the page-list operations.
MaxSize == 4

\* ------------------------------------------------------------------ fdpage
fdpage(start, size, is_loaded, is_modified) ==
    [offset |-> start, bytes |-> size, loaded |-> is_loaded, modified |-> is_modified]

\* fdpage::next(): the offset just past the page.
next(p) == p.offset + p.bytes

\* fdpage::end(): the last offset of the page (0 for a page without bytes).
end(p) == IF 0 < p.bytes THEN p.offset + p.bytes - 1 ELSE 0

\* PageList::page_status and the two flags SetPageLoadedStatus derives from it.
page_status == {"NOT_LOAD_MODIFIED", "LOADED", "MODIFIED", "LOAD_MODIFIED"}

StatusLoaded(pstatus) == pstatus \in {"LOAD_MODIFIED", "LOADED"}

StatusModified(pstatus) == pstatus \in {"LOAD_MODIFIED", "MODIFIED"}

\* The PageList object: its page list and its is_shrink member.
PageList(pgs, shrunk) == [pages |-> pgs, is_shrink |-> shrunk]

SetLast(s, p) == [s EXCEPT ![Len(s)] = p]

\* ------------------------------------------------------------------ PageList methods
\* PageList::Clear
Clear(pl) == PageList(<<>>, FALSE)

\* PageList::Init
Init(pl, size, is_loaded, is_modified) ==
    IF 0 <= size
    THEN PageList(<<fdpage(0, size, is_loaded, is_modified)>>, FALSE)
    ELSE Clear(pl)

\* PageList::Size
Size(pgs) == IF pgs = <<>> THEN 0 ELSE next(pgs[Len(pgs)])

\* PageList::Compress, the step for one page `cur` after the pages `out` already
\* passed (out's last page is lastpage).
CompressFillGap(out, cur) ==
    LET lastpage == out[Len(out)] IN
    IF next(lastpage) # cur.offset
    THEN IF lastpage.loaded \/ lastpage.modified
         THEN Append(out, fdpage(next(lastpage), cur.offset - next(lastpage), FALSE, FALSE))
         ELSE SetLast(out, [lastpage EXCEPT !.bytes = cur.offset - lastpage.offset])
    ELSE out

\* Variant: the modified flag is compared with the other page's loaded flag.
CompressSameFlags_Typo(lastpage, cur) ==
    lastpage.loaded = cur.loaded /\ lastpage.modified = cur.loaded

CompressSameFlags(lastpage, cur) ==
    lastpage.loaded = cur.loaded /\ lastpage.modified = cur.modified

\* Variant: the last page takes the length of the page that is removed.
CompressExpand_Assign(lastpage, cur) == [lastpage EXCEPT !.bytes = cur.bytes]

\* PageList::Compress: "Expand last area and remove current pos" (line 415).
CompressExpand(lastpage, cur) == [lastpage EXCEPT !.bytes = lastpage.bytes + cur.bytes]

CompressStep(out, cur) ==
    IF out = <<>>
    THEN <<cur>>
    ELSE LET filled   == CompressFillGap(out, cur)
             lastpage == filled[Len(filled)]
         IN  IF CompressSameFlags(lastpage, cur)
             THEN SetLast(filled, CompressExpand(lastpage, cur))
             ELSE Append(filled, cur)

RECURSIVE CompressLoop(_, _)
CompressLoop(out, rest) ==
    IF rest = <<>> THEN out
    ELSE CompressLoop(CompressStep(out, Head(rest)), Tail(rest))

Compress(pl) == PageList(CompressLoop(<<>>, pl.pages), pl.is_shrink)

\* Variant: the new first page does not take the flags of the page.
ParseSplit_Unflagged(p, new_pos) ==
    << fdpage(p.offset, new_pos - p.offset, FALSE, FALSE),
       [p EXCEPT !.bytes = p.bytes - (new_pos - p.offset), !.offset = new_pos] >>

\* Variant: the second page keeps the offset of the page that was split.
ParseSplit_KeepOffset(p, new_pos) ==
    << fdpage(p.offset, new_pos - p.offset, p.loaded, p.modified),
       [p EXCEPT !.bytes = p.bytes - (new_pos - p.offset)] >>

\* PageList::Parse: the two pages the page `p` containing new_pos is split into.
ParseSplit(p, new_pos) ==
    << fdpage(p.offset, new_pos - p.offset, p.loaded, p.modified),
       [p EXCEPT !.bytes = p.bytes - (new_pos - p.offset), !.offset = new_pos] >>

\* Variant: the end of the page counts as inside it.
ParseInside_ToEnd(p, new_pos) == p.offset < new_pos /\ new_pos <= next(p)

\* PageList::Parse: new_pos lies inside the page p, after its first byte
\* (line 435).
ParseInside(p, new_pos) == p.offset < new_pos /\ new_pos < next(p)

RECURSIVE ParseLoop(_, _, _)
ParseLoop(done, rest, new_pos) ==
    IF rest = <<>> THEN [ret |-> FALSE, pages |-> done]
    ELSE LET p == Head(rest) IN
         IF new_pos = p.offset
         THEN [ret |-> TRUE, pages |-> done \o rest]
         ELSE IF ParseInside(p, new_pos)
              THEN [ret |-> TRUE, pages |-> done \o ParseSplit(p, new_pos) \o Tail(rest)]
              ELSE ParseLoop(Append(done, p), Tail(rest), new_pos)

ParseRet(pl, new_pos) == ParseLoop(<<>>, pl.pages, new_pos).ret

Parse(pl, new_pos) == PageList(ParseLoop(<<>>, pl.pages, new_pos).pages, pl.is_shrink)

\* PageList::Resize, the "cut area" loop.
ResizeCutPage(p, size) == [p EXCEPT !.bytes = size - p.offset]

\* Variant: a page that starts exactly at the new size is cut, not erased.
ResizeDrops_Strict(p, size) == size < p.offset

\* Whether the page lies wholly past the new size and is erased (line 470).
ResizeDrops(p, size) == size <= p.offset

RECURSIVE ResizeCut(_, _)
ResizeCut(pgs, size) ==
    IF pgs = <<>> THEN <<>>
    ELSE LET p == Head(pgs) IN
         IF next(p) <= size
         THEN <<p>> \o ResizeCut(Tail(pgs), size)
         ELSE IF ResizeDrops(p, size)
              THEN ResizeCut(Tail(pgs), size)
              ELSE <<ResizeCutPage(p, size)>> \o ResizeCut(Tail(pgs), size)

\* Variant: a truncation never sets is_shrink.
ResizeShrink_Keeps(pl, is_modified) == pl.is_shrink

ResizeShrink(pl, is_modified) == IF is_modified THEN TRUE ELSE pl.is_shrink

\* Variant: is_shrink is not put back after Init.
ResizeInitShrink_Lost(pl, inited) == inited.is_shrink

\* Resize of a list without bytes: is_shrink as it was before Init cleared it
\* (backup_is_shrink, lines 454-457).
ResizeInitShrink(pl, inited) == pl.is_shrink

Resize(pl, size, is_loaded, is_modified) ==
    LET total == Size(pl.pages) IN
    Compress(
        IF 0 = total
        THEN LET inited == Init(pl, size, is_loaded, is_modified)
             IN  PageList(inited.pages, ResizeInitShrink(pl, inited))
        ELSE IF total < size
             THEN PageList(Append(pl.pages, fdpage(total, size - total, is_loaded, is_modified)),
                           pl.is_shrink)
             ELSE IF size < total
                  THEN PageList(ResizeCut(pl.pages, size), ResizeShrink(pl, is_modified))
                  ELSE pl)

\* PageList::SetPageLoadedStatus, the "set loaded flag" loop over the inner pages.
\* Variant: next() where end() is meant.
SetFlagsSkips_Next(p, start) == next(p) < start

\* Whether the page ends before the range and is passed over (line 530).
SetFlagsSkips(p, start) == end(p) < start

RECURSIVE SetFlagsLoop(_, _, _, _, _)
SetFlagsLoop(pgs, start, size, is_loaded, is_modified) ==
    IF pgs = <<>> THEN <<>>
    ELSE LET p == Head(pgs) IN
         IF SetFlagsSkips(p, start)
         THEN <<p>> \o SetFlagsLoop(Tail(pgs), start, size, is_loaded, is_modified)
         ELSE IF start + size <= p.offset
              THEN pgs
              ELSE <<[p EXCEPT !.loaded = is_loaded, !.modified = is_modified]>>
                   \o SetFlagsLoop(Tail(pgs), start, size, is_loaded, is_modified)

\* Variant: the area before `start` is never marked modified.
SetStatusGap_Unmodified(pl, start, is_modified) == Resize(pl, start, FALSE, FALSE)

\* The flags given to the area between the current end and `start` (line 512).
SetStatusGap(pl, start, is_modified) == Resize(pl, start, FALSE, is_modified)

SetPageLoadedStatus(pl, start, size, pstatus, is_compress) ==
    LET now_size    == Size(pl.pages)
        is_loaded   == StatusLoaded(pstatus)
        is_modified == StatusModified(pstatus)
        res ==
            IF now_size <= start
            THEN Resize(IF now_size < start THEN SetStatusGap(pl, start, is_modified) ELSE pl,
                        start + size, is_loaded, is_modified)
            ELSE IF now_size <= start + size
                 THEN Resize(Resize(pl, start, FALSE, FALSE), start + size, is_loaded, is_modified)
                 ELSE LET parsed == Parse(Parse(pl, start), start + size) IN
                      PageList(SetFlagsLoop(parsed.pages, start, size, is_loaded, is_modified),
                               parsed.is_shrink)
    IN  IF is_compress THEN Compress(res) ELSE res

\* PageList::ClearAllModified
\* Variant: the flag is left as it is.
ClearModifiedFlag_Keeps(p) == p

ClearModifiedFlag(p) == IF p.modified THEN [p EXCEPT !.modified = FALSE] ELSE p

ClearAllModified(pl) ==
    Compress(PageList([i \in 1..Len(pl.pages) |-> ClearModifiedFlag(pl.pages[i])], FALSE))

\* PageList::IsPageLoaded, the loop from page i on.
RECURSIVE IsPageLoadedLoop(_, _, _, _)
IsPageLoadedLoop(pgs, i, start, size) ==
    IF Len(pgs) < i THEN TRUE
    ELSE IF end(pgs[i]) < start THEN IsPageLoadedLoop(pgs, i + 1, start, size)
    ELSE IF ~pgs[i].loaded THEN FALSE
    ELSE IF 0 # size /\ start + size <= next(pgs[i]) THEN TRUE
    ELSE IsPageLoadedLoop(pgs, i + 1, start, size)

IsPageLoaded(pgs, start, size) == IsPageLoadedLoop(pgs, 1, start, size)

\* Variant: a page is left out when its own length reaches the limit.
UnloadedCounts_PageLength(p, tmpsize, limit_size) == 0 = limit_size \/ p.bytes < limit_size

\* PageList::GetTotalUnloadedPageSize: whether tmpsize, the part of page p
\* inside the range, is added (line 596).
UnloadedCounts(p, tmpsize, limit_size) == 0 = limit_size \/ tmpsize < limit_size

\* PageList::GetTotalUnloadedPageSize: tmpsize of page p for [start, nxt)
\* (lines 586-595).
UnloadedTmpsize(p, start, nxt) ==
    IF p.offset <= start
    THEN IF next(p) <= nxt THEN next(p) - start ELSE nxt - start
    ELSE IF next(p) <= nxt THEN next(p) - p.offset ELSE nxt - p.offset

\* PageList::GetTotalUnloadedPageSize, the loop from page i on (lines 574-599).
RECURSIVE TotalUnloadedLoop(_, _, _, _, _)
TotalUnloadedLoop(pgs, i, start, nxt, limit_size) ==
    IF Len(pgs) < i THEN 0
    ELSE IF next(pgs[i]) <= start THEN TotalUnloadedLoop(pgs, i + 1, start, nxt, limit_size)
    ELSE IF nxt <= pgs[i].offset THEN 0
    ELSE IF pgs[i].loaded \/ pgs[i].modified
         THEN TotalUnloadedLoop(pgs, i + 1, start, nxt, limit_size)
    ELSE (IF UnloadedCounts(pgs[i], UnloadedTmpsize(pgs[i], start, nxt), limit_size)
          THEN UnloadedTmpsize(pgs[i], start, nxt) ELSE 0)
         + TotalUnloadedLoop(pgs, i + 1, start, nxt, limit_size)

\* PageList::GetTotalUnloadedPageSize: size 0 means to the end (lines 565-572).
GetTotalUnloadedPageSize(pgs, start, size, limit_size) ==
    LET sz == IF 0 = size /\ start < Size(pgs) THEN Size(pgs) - start ELSE size
    IN  TotalUnloadedLoop(pgs, 1, start, start + sz, limit_size)

\* PageList::GetUnloadedPages: the part of page p inside [start, nxt), as the
\* page that is added to the list (lines 624-627, 635).
UnloadedArea(p, start, nxt) ==
    LET page_start == IF p.offset < start THEN start ELSE p.offset
        page_next  == IF nxt < next(p) THEN nxt ELSE next(p)
    IN  fdpage(page_start, page_next - page_start, FALSE, FALSE)

\* Variant: an area is never merged into the page before it.
UnloadedMerges_Never(unloaded_list, page_start) == FALSE

\* PageList::GetUnloadedPages: the area starts where the last page of
\* unloaded_list ends (lines 630-631).
UnloadedMerges(unloaded_list, page_start) ==
    unloaded_list # <<>> /\ next(unloaded_list[Len(unloaded_list)]) = page_start

\* PageList::GetUnloadedPages, the loop from page i on (lines 613-638).
RECURSIVE UnloadedPagesLoop(_, _, _, _, _)
UnloadedPagesLoop(pgs, i, unloaded_list, start, nxt) ==
    IF Len(pgs) < i THEN unloaded_list
    ELSE IF next(pgs[i]) <= start
         THEN UnloadedPagesLoop(pgs, i + 1, unloaded_list, start, nxt)
    ELSE IF nxt <= pgs[i].offset THEN unloaded_list
    ELSE IF pgs[i].loaded \/ pgs[i].modified
         THEN UnloadedPagesLoop(pgs, i + 1, unloaded_list, start, nxt)
    ELSE LET page == UnloadedArea(pgs[i], start, nxt)
             riter == unloaded_list[Len(unloaded_list)]
         IN  UnloadedPagesLoop(pgs, i + 1,
                 IF UnloadedMerges(unloaded_list, page.offset)
                 THEN SetLast(unloaded_list, [riter EXCEPT !.bytes = riter.bytes + page.bytes])
                 ELSE Append(unloaded_list, page),
                 start, nxt)

\* PageList::GetUnloadedPages: unloaded_list as the call leaves it (the
\* result is its length); size 0 means to the end (lines 605-611).
GetUnloadedPages(pgs, unloaded_list, start, size) ==
    LET sz == IF 0 = size /\ start < Size(pgs) THEN Size(pgs) - start ELSE size
    IN  UnloadedPagesLoop(pgs, 1, unloaded_list, start, start + sz)

\* PageList::BytesModified
RECURSIVE BytesModifiedLoop(_)
BytesModifiedLoop(pgs) ==
    IF pgs = <<>> THEN 0
    ELSE (IF Head(pgs).modified THEN Head(pgs).bytes ELSE 0) + BytesModifiedLoop(Tail(pgs))

BytesModified(pl) == BytesModifiedLoop(pl.pages)

\* PageList::IsModified
IsModified(pl) ==
    IF pl.is_shrink THEN TRUE
    ELSE \E i \in 1..Len(pl.pages) : pl.pages[i].modified

\* ------------------------------------------------------------------ fdpage_list_t utility
\* raw_add_compress_fdpage_list
raw_add_compress_fdpage_list(pagelist, orgpage, ignore_load, ignore_modify, default_load, default_modify) ==
    IF 0 < orgpage.bytes
    THEN Append(pagelist,
                [orgpage EXCEPT !.loaded   = IF ignore_load THEN default_load ELSE @,
                                !.modified = IF ignore_modify THEN default_modify ELSE @])
    ELSE pagelist

\* raw_compress_fdpage_list: whether the page before a hole keeps its own flags,
\* so that the hole becomes a page of default values (lines 91-92).
RawGapNeedsPage(lastpage, ignore_load, ignore_modify) ==
    \/ (~ignore_load   /\ lastpage.loaded   # FALSE)
    \/ (~ignore_modify /\ lastpage.modified # FALSE)

\* raw_compress_fdpage_list: whether the current page starts a new page (lines 108-109).
RawFlagsDiffer(lastpage, cur, ignore_load, ignore_modify) ==
    \/ (~ignore_load   /\ lastpage.loaded   # cur.loaded)
    \/ (~ignore_modify /\ lastpage.modified # cur.modified)

\* raw_compress_fdpage_list, the loop body for one page.  Pages have bytes >= 0
\* here, so the first page that is not skipped is always added.
RawCompressStep(out, cur, ignore_load, ignore_modify, default_load, default_modify) ==
    IF 0 = cur.bytes
    THEN out
    ELSE IF out = <<>>
    THEN raw_add_compress_fdpage_list(out, cur, ignore_load, ignore_modify, default_load, default_modify)
    ELSE LET lastpage == out[Len(out)]
             filled ==
                 IF next(lastpage) # cur.offset
                 THEN IF RawGapNeedsPage(lastpage, ignore_load, ignore_modify)
                      THEN raw_add_compress_fdpage_list(out,
                               fdpage(next(lastpage), cur.offset - next(lastpage), FALSE, FALSE),
                               ignore_load, ignore_modify, default_load, default_modify)
                      ELSE SetLast(out, [lastpage EXCEPT !.bytes = cur.offset - lastpage.offset])
                 ELSE out
             lastpage2 == filled[Len(filled)]
         IN  IF RawFlagsDiffer(lastpage2, cur, ignore_load, ignore_modify)
             THEN raw_add_compress_fdpage_list(filled, cur, ignore_load, ignore_modify, default_load, default_modify)
             ELSE SetLast(filled, [lastpage2 EXCEPT !.bytes = lastpage2.bytes + cur.bytes])

RECURSIVE RawCompressLoop(_, _, _, _, _, _)
RawCompressLoop(out, rest, ignore_load, ignore_modify, default_load, default_modify) ==
    IF rest = <<>> THEN out
    ELSE RawCompressLoop(
             RawCompressStep(out, Head(rest), ignore_load, ignore_modify, default_load, default_modify),
             Tail(rest), ignore_load, ignore_modify, default_load, default_modify)

raw_compress_fdpage_list(pgs, ignore_load, ignore_modify, default_load, default_modify) ==
    RawCompressLoop(<<>>, pgs, ignore_load, ignore_modify, default_load, default_modify)

compress_fdpage_list_ignore_modify(pgs, default_modify) ==
    raw_compress_fdpage_list(pgs, FALSE, TRUE, FALSE, default_modify)

\* Variant: the two ignore flags are swapped.
compress_fdpage_list_ignore_load_Swapped(pgs, default_load) ==
    raw_compress_fdpage_list(pgs, FALSE, TRUE, default_load, FALSE)

compress_fdpage_list_ignore_load(pgs, default_load) ==
    raw_compress_fdpage_list(pgs, TRUE, FALSE, default_load, FALSE)

compress_fdpage_list(pgs) ==
    raw_compress_fdpage_list(pgs, FALSE, FALSE, FALSE, FALSE)

\* Variant: the rest is cut only when it exceeds three parts.
PartsizeDoParse_Triple(rest_bytes, max_partsize) == (max_partsize * 3) < rest_bytes

\* parse_partsize_fdpage_list: whether a part of max_partsize is cut off the
\* front of the rest of a modified page (line 148).
PartsizeDoParse(rest_bytes, max_partsize) == (max_partsize * 2) < rest_bytes

\* parse_partsize_fdpage_list: the parts of one modified page.
RECURSIVE PartsizeSplit(_, _, _, _)
PartsizeSplit(tmppage, start, rest_bytes, max_partsize) ==
    IF ~(0 < rest_bytes) THEN <<>>
    ELSE IF PartsizeDoParse(rest_bytes, max_partsize)
         THEN <<[tmppage EXCEPT !.offset = start, !.bytes = max_partsize]>>
              \o PartsizeSplit(tmppage, start + max_partsize, rest_bytes - max_partsize, max_partsize)
         ELSE <<[tmppage EXCEPT !.offset = start, !.bytes = rest_bytes]>>

RECURSIVE parse_partsize_fdpage_list(_, _)
parse_partsize_fdpage_list(pgs, max_partsize) ==
    IF pgs = <<>> THEN <<>>
    ELSE LET p == Head(pgs) IN
         (IF p.modified
          THEN PartsizeSplit(p, p.offset, p.bytes, max_partsize)
          ELSE <<p>>)
         \o parse_partsize_fdpage_list(Tail(pgs), max_partsize)

\* ------------------------------------------------------------------ multipart upload planner
\* PageList::GetPageListsForMultipartUpload: the loop state is prev_page and
\* the two lists being built.
PlanStart == [prev_page |-> fdpage(0, 0, FALSE, FALSE), download_pages |-> <<>>, mixupload_pages |-> <<>>]

\* Variant: off by one.
PlanTooSmall_OffByOne(page, min_size) == page.bytes + 1 < min_size

\* Variant: the offset of the rest is not advanced.
PlanRemainder_KeepOffset(cur, missing_bytes) ==
    [cur EXCEPT !.bytes = cur.bytes - missing_bytes]

\* Whether an area is too small for one part (lines 666 and 694).
PlanTooSmall(page, min_size) == page.bytes < min_size

\* The rest of the current page after its missing bytes were taken (lines 711-713).
PlanRemainder(cur, missing_bytes) ==
    [cur EXCEPT !.offset = cur.offset + missing_bytes, !.bytes = cur.bytes - missing_bytes]

\* current is modified, previous is not (lines 666-680)
PlanModifiedAfterUnmodified(st, cur, min_size) ==
    IF PlanTooSmall(st.prev_page, min_size)
    THEN [prev_page       |-> cur,
          download_pages  |-> Append(st.download_pages, st.prev_page),
          mixupload_pages |-> Append(st.mixupload_pages, [st.prev_page EXCEPT !.modified = TRUE])]
    ELSE [prev_page       |-> cur,
          download_pages  |-> st.download_pages,
          mixupload_pages |-> Append(st.mixupload_pages, [st.prev_page EXCEPT !.modified = FALSE])]

\* Variant: a rest of exactly the minimum size is accepted.
PlanTakesMissingOnly_OrEqual(missing_bytes, cur, min_size) ==
    (missing_bytes + min_size) <= cur.bytes

\* Whether only the missing bytes of the current page are taken (line 699).
PlanTakesMissingOnly(missing_bytes, cur, min_size) == (missing_bytes + min_size) < cur.bytes

\* Variant: one byte less is downloaded.
PlanMissingPage_Short(cur, missing_bytes) == fdpage(cur.offset, missing_bytes - 1, FALSE, FALSE)

\* The missing bytes, taken from the start of the current page (line 703).
PlanMissingPage(cur, missing_bytes) == fdpage(cur.offset, missing_bytes, FALSE, FALSE)

\* current is not modified, previous is (lines 694-730)
PlanUnmodifiedAfterModified(st, cur, min_size) ==
    IF PlanTooSmall(st.prev_page, min_size)
    THEN LET missing_bytes == min_size - st.prev_page.bytes IN
         IF PlanTakesMissingOnly(missing_bytes, cur, min_size)
         THEN [prev_page       |-> PlanRemainder(cur, missing_bytes),
               download_pages  |-> Append(st.download_pages,
                                          PlanMissingPage(cur, missing_bytes)),
               mixupload_pages |-> Append(st.mixupload_pages,
                                          [st.prev_page EXCEPT !.bytes = min_size])]
         ELSE [prev_page       |-> [st.prev_page EXCEPT !.bytes = st.prev_page.bytes + cur.bytes],
               download_pages  |-> Append(st.download_pages, cur),
               mixupload_pages |-> st.mixupload_pages]
    ELSE [prev_page       |-> cur,
          download_pages  |-> st.download_pages,
          mixupload_pages |-> Append(st.mixupload_pages, st.prev_page)]

PlanStep(st, cur, min_size) ==
    IF cur.modified
    THEN IF ~st.prev_page.modified
         THEN PlanModifiedAfterUnmodified(st, cur, min_size)
         ELSE [st EXCEPT !.prev_page.bytes = st.prev_page.bytes + cur.bytes]
    ELSE IF ~st.prev_page.modified
         THEN [st EXCEPT !.prev_page.bytes = st.prev_page.bytes + cur.bytes]
         ELSE PlanUnmodifiedAfterModified(st, cur, min_size)

RECURSIVE PlanLoop(_, _, _)
PlanLoop(st, rest, min_size) ==
    IF rest = <<>> THEN st
    ELSE PlanLoop(PlanStep(st, Head(rest), min_size), Tail(rest), min_size)

\* The "last area" (lines 735-737).
PlanLastArea(st) ==
    IF 0 < st.prev_page.bytes THEN Append(st.mixupload_pages, st.prev_page)
    ELSE st.mixupload_pages

\* The download list handed back: compressed, then parsed by max_partsize.
PlanDlpages(download_pages, max_partsize) ==
    parse_partsize_fdpage_list(compress_fdpage_list_ignore_modify(download_pages, FALSE), max_partsize)

\* The upload list handed back: compressed, then parsed by max_partsize.
PlanMixuppages(mixupload_pages, max_partsize) ==
    parse_partsize_fdpage_list(compress_fdpage_list_ignore_load(mixupload_pages, FALSE), max_partsize)

\* min_size is MIN_MULTIPART_SIZE, the smallest part the object store accepts.
GetPageListsForMultipartUpload(pl, min_size, max_partsize) ==
    LET compressed     == Compress(pl)
        modified_pages == compress_fdpage_list_ignore_load(compressed.pages, FALSE)
        st             == PlanLoop(PlanStart, modified_pages, min_size)
    IN  [pl         |-> compressed,
         dlpages    |-> PlanDlpages(st.download_pages, max_partsize),
         mixuppages |-> PlanMixuppages(PlanLastArea(st), max_partsize)]

\* ------------------------------------------------------------------ stats file
\* The stats file as Deserialize reads it: `io` is what open, fstat and pread
\* answer, `text` the lines of the file, each line the numbers between its
\* colons ("<inode>:<size>", then "<offset>:<size>:<loaded>:<modified>").
\* A file of size 0 has no line at all.
StatFile(io, text) == [io |-> io, text |-> text]

\* Variant: the inode of the head line is not compared.
DeserializeHead_NoCheck(head, inode) ==
    IF Len(head) = 0
    THEN [ok |-> FALSE, total |-> 0]
    ELSE IF Len(head) = 1
         THEN [ok |-> TRUE, total |-> head[1]]
         ELSE [ok |-> head[1] # 0, total |-> head[2]]

\* The head line (lines 888-920): ok is false where Deserialize returns false.
DeserializeHead(head, inode) ==
    IF Len(head) = 0
    THEN [ok |-> FALSE, total |-> 0]
    ELSE IF Len(head) = 1
         THEN [ok |-> TRUE, total |-> head[1]]
         ELSE [ok |-> head[1] # 0 /\ head[1] = inode, total |-> head[2]]

\* The page_status of one page line (lines 944-963).
DeserializeStatus(line) ==
    LET is_loaded   == (1 = line[3])
        is_modified == IF Len(line) < 4 THEN FALSE ELSE (1 = line[4])
    IN  IF is_loaded
        THEN IF is_modified THEN "LOAD_MODIFIED" ELSE "LOADED"
        ELSE IF is_modified THEN "MODIFIED" ELSE "NOT_LOAD_MODIFIED"

\* The loop over the page lines (lines 924-965).
RECURSIVE DeserializeLines(_, _)
DeserializeLines(pl, lines) ==
    IF lines = <<>> THEN [is_err |-> FALSE, pl |-> pl]
    ELSE LET line == Head(lines) IN
         IF Len(line) < 3
         THEN [is_err |-> TRUE, pl |-> pl]
         ELSE DeserializeLines(
                  SetPageLoadedStatus(pl, line[1], line[2], DeserializeStatus(line), TRUE),
                  Tail(lines))

\* Variant: the size of the head line is not compared.
DeserializeSizeDiffers_Never(total, pl) == FALSE

\* The "check size" of Deserialize (line 973).
DeserializeSizeDiffers(total, pl) == total # Size(pl.pages)

\* Variant: the pages set so far are kept.
DeserializeGivesUp_Keeps(pl) == pl

\* Deserialize gives up after the page lines: Clear() (lines 968 and 975).
DeserializeGivesUp(pl) == Clear(pl)

\* PageList::Deserialize
Deserialize(pl, file, inode) ==
    IF file.io \in {"open_fail", "fstat_fail"}
    THEN [ret |-> FALSE, pl |-> pl]
    ELSE IF file.text = <<>>
    THEN [ret |-> TRUE, pl |-> Init(pl, 0, FALSE, FALSE)]
    ELSE IF file.io = "read_fail"
    THEN [ret |-> FALSE, pl |-> pl]
    ELSE LET head == DeserializeHead(Head(file.text), inode) IN
         IF ~head.ok
         THEN [ret |-> FALSE, pl |-> Clear(pl)]
         ELSE LET loaded == DeserializeLines(Clear(pl), Tail(file.text)) IN
              IF loaded.is_err
              THEN [ret |-> FALSE, pl |-> DeserializeGivesUp(loaded.pl)]
              ELSE IF DeserializeSizeDiffers(head.total, loaded.pl)
                   THEN [ret |-> FALSE, pl |-> DeserializeGivesUp(loaded.pl)]
                   ELSE [ret |-> TRUE, pl |-> loaded.pl]

\* operator<< of an off_t or ino_t >= 0: its decimal digits.
RECURSIVE DecimalText(_)
DecimalText(n) == IF n < 10 THEN <<n>> ELSE DecimalText(n \div 10) \o <<n % 10>>

\* cvt_strtoofft(str, 10) of a string of decimal digits.
RECURSIVE cvt_strtoofft(_)
cvt_strtoofft(str) ==
    IF str = <<>> THEN 0
    ELSE cvt_strtoofft(SubSeq(str, 1, Len(str) - 1)) * 10 + str[Len(str)]

\* Variant: the line is written in the old format, without the modified field.
SerializeLine_Old(p) ==
    << DecimalText(p.offset), DecimalText(p.bytes), IF p.loaded THEN <<1>> ELSE <<0>> >>

\* PageList::Serialize, the line written for one page (line 835): its fields,
\* each a string of digits.
SerializeLine(p) ==
    << DecimalText(p.offset), DecimalText(p.bytes),
       IF p.loaded THEN <<1>> ELSE <<0>>, IF p.modified THEN <<1>> ELSE <<0>> >>

\* PageList::Serialize: `io` is what open, ftruncate and pwrite answer; the
\* result is the return value and the text the stats file holds afterwards
\* (`kept` where the file was not touched).
Serialize(pl, io, inode) ==
    LET strall == << <<DecimalText(inode), DecimalText(Size(pl.pages))>> >>
                  \o [i \in 1..Len(pl.pages) |-> SerializeLine(pl.pages[i])]
    IN  IF io \in {"open_fail", "truncate_fail"}
        THEN [ret |-> FALSE, kept |-> TRUE, text |-> <<>>]
        ELSE IF io = "write_fail"
             THEN [ret |-> FALSE, kept |-> FALSE, text |-> <<>>]
             ELSE [ret |-> TRUE, kept |-> FALSE, text |-> strall]

\* The numbers Deserialize reads out of the fields of a written text.
ReadFields(text) ==
    [i \in 1..Len(text) |-> [j \in 1..Len(text[i]) |-> cvt_strtoofft(text[i][j])]]

\* ------------------------------------------------------------------ sparse file
\* The cache file as lseek and pread see it: `blocks` is the state of each
\* block of `unit` bytes -- "hole", "zero" (allocated, reads as zeros) or
\* "data" (allocated, no byte is zero) -- and `io` is what the calls answer.
CacheFile(io, unit, blocks) == [io |-> io, unit |-> unit, blocks |-> blocks]

FileSize(file) == Len(file.blocks) * file.unit

BlockAt(file, pos) == file.blocks[(pos \div file.unit) + 1]

\* lseek(fd, pos, SEEK_DATA) and lseek(fd, pos, SEEK_HOLE): the first offset at
\* or after pos that lies in data (in a hole; the end of the file counts as a
\* hole), -1 where there is none or pos is not inside the file.
Lseek(file, pos, whence) ==
    IF file.io = "lseek_fail" \/ pos >= FileSize(file) THEN -1
    ELSE LET found == { q \in pos..(FileSize(file) - 1) :
                           (BlockAt(file, q) = "hole") = (whence = "SEEK_HOLE") }
         IN  IF found # {}
             THEN CHOOSE q \in found : \A r \in found : q <= r
             ELSE IF whence = "SEEK_HOLE" THEN FileSize(file) ELSE -1

\* Variant: the segment is taken to end at next_pos also when lseek failed.
SparsePageBytes_NoEnd(file_size, cur_pos, next_pos) == next_pos - cur_pos

\* page.bytes: up to next_pos, up to the end of the file when lseek found no
\* further segment (lines 222-226).
SparsePageBytes(file_size, cur_pos, next_pos) ==
    IF -1 = next_pos THEN file_size - cur_pos ELSE next_pos - cur_pos

\* PageList::GetSparseFilePages, the loop from cur_pos on.
RECURSIVE SparseLoop(_, _, _, _)
SparseLoop(file, file_size, cur_pos, is_hole) ==
    LET next_pos == Lseek(file, cur_pos, IF is_hole THEN "SEEK_DATA" ELSE "SEEK_HOLE")
        page     == fdpage(cur_pos, SparsePageBytes(file_size, cur_pos, next_pos),
                           ~is_hole, FALSE)
    IN  <<page>> \o (IF 0 <= next_pos THEN SparseLoop(file, file_size, next_pos, ~is_hole)
                     ELSE <<>>)

\* Whether the file starts with a hole (lines 201-213).
SparseStartsWithHole(hole_pos, data_pos) ==
    IF -1 = hole_pos THEN FALSE
    ELSE IF -1 = data_pos THEN TRUE
    ELSE hole_pos < data_pos

\* PageList::GetSparseFilePages
GetSparseFilePages(file, file_size) ==
    IF 0 = file_size
    THEN [ret |-> TRUE, sparse_list |-> <<>>]
    ELSE LET hole_pos == Lseek(file, 0, "SEEK_HOLE")
             data_pos == Lseek(file, 0, "SEEK_DATA")
         IN  IF -1 = hole_pos /\ -1 = data_pos
             THEN [ret |-> FALSE, sparse_list |-> <<>>]
             ELSE [ret |-> TRUE,
                   sparse_list |-> SparseLoop(file, file_size, 0,
                                              SparseStartsWithHole(hole_pos, data_pos))]

\* PageList::CheckZeroAreaInFile: a failed read counts as data that is not zero.
CheckZeroAreaInFile(file, start, bytes) ==
    IF file.io = "read_fail" /\ 0 < bytes THEN FALSE
    ELSE \A q \in start..(start + bytes - 1) :
             q < FileSize(file) => BlockAt(file, q) # "data"

\* PageList::CheckAreaInSparseFile: the area of checkpage compared with the
\* element `it` of sparse_list (cases 2 to 5, lines 303-322).
CheckArea(checkpage, it) ==
    IF it.offset < checkpage.offset /\ next(it) < next(checkpage)
    THEN [check_start |-> checkpage.offset,
          check_bytes |-> it.bytes - (checkpage.offset - it.offset)]
    ELSE IF next(checkpage) < next(it)
    THEN [check_start |-> it.offset,
          check_bytes |-> checkpage.bytes - (it.offset - checkpage.offset)]
    ELSE IF checkpage.offset < it.offset /\ next(it) < next(checkpage)
    THEN [check_start |-> it.offset, check_bytes |-> it.bytes]
    ELSE [check_start |-> checkpage.offset, check_bytes |-> checkpage.bytes]

\* Variant: only the loaded flag is looked at.
ClaimsData_LoadedOnly(checkpage) == checkpage.loaded

\* Whether a page of the list claims data in its area (line 325).
ClaimsData(checkpage) == checkpage.loaded \/ checkpage.modified

\* PageList::CheckAreaInSparseFile, the loop over sparse_list; `acc` holds
\* result and the two lists.
RECURSIVE CheckAreaLoop(_, _, _, _)
CheckAreaLoop(checkpage, rest, file, acc) ==
    IF rest = <<>> THEN acc
    ELSE LET it == Head(rest) IN
         IF next(it) <= checkpage.offset
         THEN CheckAreaLoop(checkpage, Tail(rest), file, acc)
         ELSE IF next(checkpage) <= it.offset
         THEN acc
         ELSE LET area == CheckArea(checkpage, it)
                  acc2 ==
                    IF ClaimsData(checkpage)
                    THEN IF ~it.loaded
                         THEN [acc EXCEPT !.result = FALSE,
                                          !.err_area_list = Append(@,
                                              fdpage(area.check_start, area.check_bytes, FALSE, FALSE))]
                         ELSE acc
                    ELSE IF it.loaded
                              /\ ~CheckZeroAreaInFile(file, area.check_start, area.check_bytes)
                         THEN [acc EXCEPT !.result = FALSE,
                                          !.warn_area_list = Append(@,
                                              fdpage(area.check_start, area.check_bytes, TRUE, FALSE))]
                         ELSE acc
              IN  CheckAreaLoop(checkpage, Tail(rest), file, acc2)

\* PageList::CheckAreaInSparseFile: its result is that of this call alone.
CheckAreaInSparseFile(checkpage, sparse_list, file, err_area_list, warn_area_list) ==
    CheckAreaLoop(checkpage, sparse_list, file,
                  [result |-> TRUE, err_area_list |-> err_area_list,
                   warn_area_list |-> warn_area_list])

\* PageList::CompareSparseFile, the loop over the pages.
RECURSIVE CompareLoop(_, _, _, _)
CompareLoop(rest, sparse_list, file, acc) ==
    IF rest = <<>> THEN acc
    ELSE LET r == CheckAreaInSparseFile(Head(rest), sparse_list, file,
                                        acc.err_area_list, acc.warn_area_list)
         IN  CompareLoop(Tail(rest), sparse_list, file,
                         [result         |-> acc.result /\ r.result,
                          err_area_list  |-> r.err_area_list,
                          warn_area_list |-> r.warn_area_list])

\* PageList::CompareSparseFile
CompareSparseFile(pl, file, file_size) ==
    LET probe == GetSparseFilePages(file, file_size) IN
    IF ~probe.ret
    THEN [result |-> FALSE, err_area_list |-> <<fdpage(0, file_size, FALSE, FALSE)>>,
          warn_area_list |-> <<>>]
    ELSE IF probe.sparse_list = <<>> /\ pl.pages = <<>>
    THEN [result |-> TRUE, err_area_list |-> <<>>, warn_area_list |-> <<>>]
    ELSE CompareLoop(pl.pages, probe.sparse_list, file,
                     [result |-> TRUE, err_area_list |-> <<>>, warn_area_list |-> <<>>])

\* ------------------------------------------------------------------ state machine
\* `last` is the record of the call that has just returned (its name, its
\* arguments, the object before the call); NoCall when the caller has moved on.
NoCall == [op |-> "none"]

Self == PageList(pages, is_shrink)

Became(pl) == pages' = pl.pages /\ is_shrink' = pl.is_shrink /\ UNCHANGED poolvars

\* Clients of the pool.
Clients == {"c1", "c2"}

\* No pool has been created: ThreadPoolMan::singleton is null.
NoThreadPool ==
    /\ is_exit = FALSE
    /\ thpoolman_sem = 0
    /\ instruction_list = <<>>
    /\ thread_list_lock = "none"
    /\ thread_list = <<>>
    /\ worker = <<>>
    /\ stopper = [pc |-> "none", waitcnt |-> 0, joined |-> 0]
    /\ client = [c \in Clients |-> [pc |-> "idle", job |-> 0, wait |-> FALSE]]
    /\ await_sem = <<>>
    /\ pushed = 0
    /\ dequeued = <<>>
    /\ finished = {}

\* PageList::PageList(): the default-constructed list, Init(0, false, false).
InitState ==
    /\ pages = Init(PageList(<<>>, FALSE), 0, FALSE, FALSE).pages
    /\ is_shrink = FALSE
    /\ last = NoCall
    /\ NoThreadPool

DoInit ==
    /\ last.op = "none"
    /\ \E size \in 0..MaxSize, is_loaded \in BOOLEAN, is_modified \in BOOLEAN :
         /\ Became(Init(Self, size, is_loaded, is_modified))
         /\ last' = [op |-> "Init", old |-> Self, size |-> size,
                     is_loaded |-> is_loaded, is_modified |-> is_modified]

DoResize ==
    /\ last.op = "none"
    /\ \E size \in 0..MaxSize, is_loaded \in BOOLEAN, is_modified \in BOOLEAN :
         /\ Became(Resize(Self, size, is_loaded, is_modified))
         /\ last' = [op |-> "Resize", old |-> Self, size |-> size,
                     is_loaded |-> is_loaded, is_modified |-> is_modified]

DoSetPageLoadedStatus ==
    /\ last.op = "none"
    /\ \E start \in 0..MaxSize, size \in 0..MaxSize, pstatus \in page_status,
          is_compress \in BOOLEAN :
         /\ start + size <= MaxSize
         /\ Became(SetPageLoadedStatus(Self, start, size, pstatus, is_compress))
         /\ last' = [op |-> "SetPageLoadedStatus", old |-> Self, start |-> start,
                     size |-> size, pstatus |-> pstatus, is_compress |-> is_compress]

DoParse ==
    /\ last.op = "none"
    /\ \E new_pos \in 0..(MaxSize + 1) :
         /\ Became(Parse(Self, new_pos))
         /\ last' = [op |-> "Parse", old |-> Self, new_pos |-> new_pos,
                     ret |-> ParseRet(Self, new_pos)]

DoCompress ==
    /\ last.op = "none"
    /\ Became(Compress(Self))
    /\ last' = [op |-> "Compress", old |-> Self]

DoClearAllModified ==
    /\ last.op = "none"
    /\ Became(ClearAllModified(Self))
    /\ last' = [op |-> "ClearAllModified", old |-> Self]

\* Inode numbers of the cache file (0 is no inode number).
Inodes == 1..2

\* Largest offset and size in the lines of a stats file.
StatMax == 2

\* Head lines: empty, "<size>", "<inode>:<size>" (inode 0 is never valid).
StatHeads ==
    {<<>>} \cup { <<t>> : t \in 0..StatMax } \cup { <<i, t>> : i \in 0..1, t \in 0..StatMax }

\* Page lines: two fields (too short), three (no modified field) or four.
StatPageLines ==
    { <<o, n>> : o \in {0}, n \in {0} }
    \cup { <<o, n, 1>> : o \in 0..StatMax, n \in 0..StatMax }
    \cup { <<o, n, l, m>> : o \in 0..StatMax, n \in 0..StatMax, l \in 0..1, m \in 0..1 }

\* The files read: the empty file, and a head line followed by no, one or two
\* page lines (in any order, overlapping or not).
StatTexts ==
    {<<>>}
    \cup { <<h>> : h \in StatHeads }
    \cup { <<h, a>> : h \in StatHeads, a \in StatPageLines }
    \cup { <<h, a, b>> : h \in StatHeads, a \in StatPageLines, b \in StatPageLines }

\* Deserialize throws away the pages it is called on (Clear, line 883), so what
\* it builds does not depend on them: it is called on the list as constructed,
\* the state of a list whose file has just been opened.
DoDeserialize ==
    /\ last.op = "none"
    /\ Self = Init(Self, 0, FALSE, FALSE)
    /\ \E io \in {"ok", "open_fail", "fstat_fail", "read_fail"}, text \in StatTexts,
          inode \in Inodes :
         /\ (io # "ok" => text = <<<<1, 0>>>> /\ inode = 1)
         /\ LET r == Deserialize(Self, StatFile(io, text), inode) IN
              /\ Became(r.pl)
              /\ last' = [op |-> "Deserialize", old |-> Self, file |-> StatFile(io, text),
                          inode |-> inode, ret |-> r.ret, after |-> NoCall]

\* Serialize writes the stats file; the list is not changed.
DoSerialize ==
    /\ last.op = "none"
    /\ \E io \in {"ok", "open_fail", "truncate_fail", "write_fail"}, inode \in Inodes :
         /\ (io # "ok" => inode = 1)
         /\ LET w == Serialize(Self, io, inode) IN
              last' = [op |-> "Serialize", old |-> Self, inode |-> inode, io |-> io,
                       ret |-> w.ret, kept |-> w.kept, text |-> w.text]
    /\ UNCHANGED <<pages, is_shrink, poolvars>>

\* Deserialize of the stats file that Serialize has just written; open, fstat
\* and pread may fail.
DoDeserializeWritten ==
    /\ last.op = "Serialize"
    /\ last.ret
    /\ \E io \in {"ok", "open_fail", "fstat_fail", "read_fail"}, inode \in Inodes :
         /\ (io # "ok" => inode = last.inode)
         /\ LET file == StatFile(io, ReadFields(last.text))
                r    == Deserialize(Self, file, inode)
            IN  /\ Became(r.pl)
                /\ last' = [op |-> "Deserialize", old |-> Self, file |-> file,
                            inode |-> inode, ret |-> r.ret, after |-> last]

\* The caller has looked at the result; the next call may start.
Return ==
    /\ last.op # "none"
    /\ last' = NoCall
    /\ UNCHANGED <<pages, is_shrink, poolvars>>

Next ==
    \/ DoInit
    \/ DoResize
    \/ DoSetPageLoadedStatus
    \/ DoParse
    \/ DoCompress
    \/ DoClearAllModified
    \/ DoDeserialize
    \/ DoSerialize
    \/ DoDeserializeWritten
    \/ Return

Spec == InitState /\ [][Next]_vars

\* ------------------------------------------------------------------ planner state machines
\* Largest file size of the lists handed to the planner.
PlanMaxSize == 6

\* Largest minimum part size tried.
MaxMin == 2

\* max_partsize ranges over 2 * MIN .. 2 * MIN + MaxSlack.
MaxSlack == 1

\* The minimum part size of the object store, in MiB (the unit of the scenario).
MIN_MULTIPART_SIZE == 5

PlanCall(min_sizes, max_sizes) ==
    /\ last.op = "none"
    /\ \E min_size \in min_sizes, max_partsize \in max_sizes :
         /\ max_partsize >= 2 * min_size
         /\ max_partsize <= 2 * min_size + MaxSlack
         /\ LET r == GetPageListsForMultipartUpload(Self, min_size, max_partsize) IN
              /\ Became(r.pl)
              /\ last' = [op |-> "GetPageListsForMultipartUpload", old |-> Self,
                          min_size |-> min_size, max_partsize |-> max_partsize,
                          dlpages |-> r.dlpages, mixuppages |-> r.mixuppages]

\* A write at the end of the file: the lists the planner is given are built
\* page by page.
AppendWrite ==
    /\ last.op = "none"
    /\ \E size \in 1..PlanMaxSize, pstatus \in page_status :
         /\ Size(pages) + size <= PlanMaxSize
         /\ Became(SetPageLoadedStatus(Self, Size(pages), size, pstatus, TRUE))
         /\ last' = NoCall

DoGetPageListsForMultipartUpload ==
    PlanCall(1..MaxMin, 2..(2 * MaxMin + MaxSlack))

PlanNext ==
    \/ AppendWrite
    \/ DoGetPageListsForMultipartUpload
    \/ Return

SpecPlan == InitState /\ [][PlanNext]_vars

\* Scenario "small modification surrounded by loaded data": a loaded file of
\* 20 MiB, one write, the plan with MIN = 5 MiB.
ScenarioInitState ==
    /\ pages = Init(PageList(<<>>, FALSE), 20, TRUE, FALSE).pages
    /\ is_shrink = FALSE
    /\ last = NoCall
    /\ NoThreadPool

\* Longest write of the scenario.
MaxWrite == 3

ScenarioWrite ==
    /\ last.op = "none"
    /\ \A i \in 1..Len(pages) : ~pages[i].modified
    /\ \E start \in 0..19, size \in 1..MaxWrite :
         /\ start + size <= 20
         /\ Became(SetPageLoadedStatus(Self, start, size, "MODIFIED", TRUE))
         /\ last' = NoCall

ScenarioPlan ==
    PlanCall({MIN_MULTIPART_SIZE}, (2 * MIN_MULTIPART_SIZE)..(2 * MIN_MULTIPART_SIZE + MaxSlack))

ScenarioNext ==
    \/ ScenarioWrite
    \/ ScenarioPlan
    \/ Return

SpecScenario == ScenarioInitState /\ [][ScenarioNext]_vars

\* ------------------------------------------------------------------ queries
\* The lists a caller of the const methods (IsPageLoaded,
\* GetTotalUnloadedPageSize) can find: every call that changes the list has
\* returned.
QuerySetPageLoadedStatus ==
    /\ last.op = "none"
    /\ \E start \in 0..MaxSize, size \in 0..MaxSize, pstatus \in page_status,
          is_compress \in BOOLEAN :
         /\ start + size <= MaxSize
         /\ Became(SetPageLoadedStatus(Self, start, size, pstatus, is_compress))
    /\ UNCHANGED last

QueryResize ==
    /\ last.op = "none"
    /\ \E size \in 0..MaxSize, is_loaded \in BOOLEAN, is_modified \in BOOLEAN :
         Became(Resize(Self, size, is_loaded, is_modified))
    /\ UNCHANGED last

QueryParse ==
    /\ last.op = "none"
    /\ \E new_pos \in 0..(MaxSize + 1) : Became(Parse(Self, new_pos))
    /\ UNCHANGED last

QueryNext ==
    \/ QuerySetPageLoadedStatus
    \/ QueryResize
    \/ QueryParse

SpecQuery == InitState /\ [][QueryNext]_vars

\* ------------------------------------------------------------------ splitting by part size
\* Most bytes of a page handed to parse_partsize_fdpage_list.
PartsizeMaxBytes == 5

\* Most pages of a list handed to parse_partsize_fdpage_list.
PartsizeMaxPages == 2

\* Largest max_partsize.
PartsizeMaxPart == 2

\* A page of the input: the hole before it, its bytes (a page may have none),
\* its flags.
PartsizePageSpecs ==
    [gap : 0..1, bytes : 0..PartsizeMaxBytes, loaded : BOOLEAN, modified : BOOLEAN]

\* The fdpage_list_t of the pages `specs`, laid out from offset pos on.
RECURSIVE PartsizeInput(_, _)
PartsizeInput(specs, pos) ==
    IF specs = <<>> THEN <<>>
    ELSE LET sp == Head(specs) IN
         <<fdpage(pos + sp.gap, sp.bytes, sp.loaded, sp.modified)>>
         \o PartsizeInput(Tail(specs), pos + sp.gap + sp.bytes)

\* parse_partsize_fdpage_list(pages, max_partsize) with 0 < max_partsize.
DoParsePartsize ==
    /\ last.op = "none"
    /\ \E n \in 0..PartsizeMaxPages, max_partsize \in 1..PartsizeMaxPart :
         \E specs \in [1..n -> PartsizePageSpecs] :
             last' = [op |-> "parse_partsize_fdpage_list", input |-> PartsizeInput(specs, 0),
                      max_partsize |-> max_partsize,
                      parsed |-> parse_partsize_fdpage_list(PartsizeInput(specs, 0), max_partsize)]
    /\ UNCHANGED <<pages, is_shrink, poolvars>>

PartsizeNext ==
    \/ DoParsePartsize
    \/ Return

SpecPartsize == InitState /\ [][PartsizeNext]_vars

\* ------------------------------------------------------------------ reconciliation state machine
\* Largest size of the cache files compared.
SparseMaxSize == 4

\* Largest block size of the cache files compared.
SparseMaxUnit == 2

\* The page list is built by writes at the end of the file.
SparseWrite ==
    /\ last.op = "none"
    /\ \E size \in 1..SparseMaxSize, pstatus \in page_status :
         /\ Size(pages) + size <= SparseMaxSize
         /\ Became(SetPageLoadedStatus(Self, Size(pages), size, pstatus, TRUE))
         /\ last' = NoCall

\* CompareSparseFile with the cache file of this list: file_size is Size().
DoCompareSparseFile ==
    /\ last.op = "none"
    /\ \E io \in {"ok", "lseek_fail", "read_fail"}, unit \in 1..SparseMaxUnit :
         /\ Size(pages) % unit = 0
         /\ (Size(pages) = 0 => unit = 1)
         /\ \E blocks \in [1..(Size(pages) \div unit) -> {"hole", "zero", "data"}] :
              /\ (io = "lseek_fail" => \A k \in DOMAIN blocks : blocks[k] = "zero")
              /\ (io = "read_fail" => \A k \in DOMAIN blocks : blocks[k] # "data")
              /\ LET file == CacheFile(io, unit, blocks)
                     r    == CompareSparseFile(Self, file, FileSize(file))
                 IN  last' = [op |-> "CompareSparseFile", old |-> Self, file |-> file,
                              file_size |-> FileSize(file), result |-> r.result,
                              err_area_list |-> r.err_area_list,
                              warn_area_list |-> r.warn_area_list]
    /\ UNCHANGED <<pages, is_shrink, poolvars>>

SparseNext ==
    \/ SparseWrite
    \/ DoCompareSparseFile
    \/ Return

SpecSparse == InitState /\ [][SparseNext]_vars

\* ------------------------------------------------------------------ worker pool
\* Number of worker threads of the pool.
PoolWorkers == 2

\* Number of jobs the clients hand in.
MaxJobs == 2

Workers == 1..PoolWorkers

\* Variant: the job at the back of the list is taken.
InstructionFront_Back(list) == list[Len(list)]

\* instruction_list.front() (line 160)
InstructionFront(list) == Head(list)

\* Variant: the job stays on the list.
InstructionPop_Keeps(list) == list

\* instruction_list.pop_front() (line 161)
InstructionPop(list) == Tail(list)

\* Variant: AwaitInstruct does not wait.
AwaitCanAcquire_Always(job) == TRUE

\* await_sem.acquire() can return (line 117).
AwaitCanAcquire(job) == 0 < await_sem[job]

\* The state after ThreadPoolMan::ThreadPoolMan(count): the threads run, no
\* job has been handed in.
PoolInitState ==
    /\ pages = <<>>
    /\ is_shrink = FALSE
    /\ last = NoCall
    /\ is_exit = FALSE
    /\ thpoolman_sem = 0
    /\ instruction_list = <<>>
    /\ thread_list_lock = "none"
    /\ thread_list = [i \in 1..PoolWorkers |-> i]
    /\ worker = [w \in Workers |-> [pc |-> "while", param |-> 0]]
    /\ stopper = [pc |-> "idle", waitcnt |-> 0, joined |-> 0]
    /\ client = [c \in Clients |-> [pc |-> "idle", job |-> 0, wait |-> FALSE]]
    /\ await_sem = <<>>
    /\ pushed = 0
    /\ dequeued = <<>>
    /\ finished = {}

PageListUnchanged == UNCHANGED <<pages, is_shrink, last>>

\* ThreadPoolMan::singleton is not null: from the constructor until Destroy
\* resets it.
HasSingleton == stopper.pc = "idle"

\* Variant: the semaphore of the parameter is not looked at.
InstructAccepts_AnyParam(has_singleton, has_psem) == has_singleton

\* ThreadPoolMan::Instruct: whether the call gets to SetInstruction (lines 83-90).
InstructAccepts(has_singleton, has_psem) == has_singleton /\ has_psem

\* ThreadPoolMan::AwaitInstruct: whether the call gets to SetInstruction
\* (lines 97-104).
AwaitInstructAccepts(has_singleton, has_psem) == has_singleton /\ ~has_psem

CallAccepted(wait, has_psem) ==
    IF wait THEN AwaitInstructAccepts(HasSingleton, has_psem)
    ELSE InstructAccepts(HasSingleton, has_psem)

\* ThreadPoolMan::Instruct / AwaitInstruct, up to the push_back of
\* SetInstruction under thread_list_lock (lines 81-114, 280-283).  A job is
\* its number, the call that handed it in (wait: AwaitInstruct) and whether
\* the caller's param.psem was set; await_sem[job] is the semaphore the job
\* releases: the local await_sem of AwaitInstruct, the semaphore of the caller
\* of Instruct.
ClientSetInstruction(c) ==
    /\ client[c].pc = "idle"
    /\ pushed < MaxJobs
    /\ thread_list_lock = "none"
    /\ \E wait \in BOOLEAN, has_psem \in BOOLEAN :
         /\ CallAccepted(wait, has_psem)
         /\ client' = [client EXCEPT ![c] = [pc |-> "pushed", job |-> pushed + 1, wait |-> wait]]
         /\ instruction_list' = Append(instruction_list,
                                       [id |-> pushed + 1, psem |-> pushed + 1,
                                        wait |-> wait, has_psem |-> has_psem])
    /\ pushed' = pushed + 1
    /\ await_sem' = Append(await_sem, 0)
    /\ UNCHANGED <<is_exit, thpoolman_sem, thread_list_lock, thread_list, worker, stopper,
                   dequeued, finished>>
    /\ PageListUnchanged

\* Instruct or AwaitInstruct returns false before SetInstruction (lines 83-90,
\* 97-104); `last` is the call that has returned.
ClientRefused(c) ==
    /\ client[c].pc = "idle"
    /\ last.op = "none"
    /\ \E wait \in BOOLEAN, has_psem \in BOOLEAN :
         /\ ~CallAccepted(wait, has_psem)
         /\ last' = [op |-> IF wait THEN "AwaitInstruct" ELSE "Instruct",
                     has_psem |-> has_psem, has_singleton |-> HasSingleton, ret |-> FALSE]
    /\ UNCHANGED <<pages, is_shrink, poolvars>>

\* SetInstruction: thpoolman_sem.release() (line 286); Instruct returns here.
ClientRelease(c) ==
    /\ client[c].pc = "pushed"
    /\ thpoolman_sem' = thpoolman_sem + 1
    /\ client' = [client EXCEPT ![c].pc = IF client[c].wait THEN "await" ELSE "idle"]
    /\ UNCHANGED <<is_exit, instruction_list, thread_list_lock, thread_list, worker, stopper,
                   await_sem, pushed, dequeued, finished>>
    /\ PageListUnchanged

\* AwaitInstruct: await_sem.acquire() (line 117), then return true.
ClientAwait(c) ==
    /\ client[c].pc = "await"
    /\ AwaitCanAcquire(client[c].job)
    /\ await_sem' = [await_sem EXCEPT ![client[c].job] = @ - 1]
    /\ client' = [client EXCEPT ![c].pc = "returned"]
    /\ UNCHANGED <<is_exit, thpoolman_sem, instruction_list, thread_list_lock, thread_list,
                   worker, stopper, pushed, dequeued, finished>>
    /\ PageListUnchanged

\* The caller of AwaitInstruct goes on.
ClientReturned(c) ==
    /\ client[c].pc = "returned"
    /\ client' = [client EXCEPT ![c] = [pc |-> "idle", job |-> 0, wait |-> FALSE]]
    /\ UNCHANGED <<is_exit, thpoolman_sem, instruction_list, thread_list_lock, thread_list,
                   worker, stopper, await_sem, pushed, dequeued, finished>>
    /\ PageListUnchanged

WorkerGoes(w, pc) == worker' = [worker EXCEPT ![w].pc = pc]

\* Worker: while(!psingleton->IsExit()) (line 137)
WorkerWhile(w) ==
    /\ worker[w].pc = "while"
    /\ WorkerGoes(w, IF is_exit THEN "exit" ELSE "acquire")
    /\ UNCHANGED <<is_exit, thpoolman_sem, instruction_list, thread_list_lock, thread_list,
                   stopper, client, await_sem, pushed, dequeued, finished>>
    /\ PageListUnchanged

\* Worker: thpoolman_sem.acquire() (line 139)
WorkerAcquire(w) ==
    /\ worker[w].pc = "acquire"
    /\ 0 < thpoolman_sem
    /\ thpoolman_sem' = thpoolman_sem - 1
    /\ WorkerGoes(w, "check")
    /\ UNCHANGED <<is_exit, instruction_list, thread_list_lock, thread_list,
                   stopper, client, await_sem, pushed, dequeued, finished>>
    /\ PageListUnchanged

\* Worker: the second IsExit() and CreateCurlHandle, whose result is one of
\* `results` (lines 141-149).
WorkerCheckWith(w, results) ==
    /\ worker[w].pc = "check"
    /\ \E curl_ok \in results :
         WorkerGoes(w, IF is_exit \/ ~curl_ok THEN "exit" ELSE "lock")
    /\ UNCHANGED <<is_exit, thpoolman_sem, instruction_list, thread_list_lock, thread_list,
                   stopper, client, await_sem, pushed, dequeued, finished>>
    /\ PageListUnchanged

\* CreateCurlHandle may fail.
WorkerCheck(w) == WorkerCheckWith(w, BOOLEAN)

\* Worker: "get instruction" under thread_list_lock (lines 153-163).
WorkerGetInstruction(w) ==
    /\ worker[w].pc = "lock"
    /\ thread_list_lock = "none"
    /\ IF instruction_list = <<>>
       THEN /\ WorkerGoes(w, "while")
            /\ UNCHANGED <<instruction_list, dequeued>>
       ELSE /\ worker' = [worker EXCEPT ![w] = [pc |-> "run",
                                                 param |-> InstructionFront(instruction_list)]]
            /\ instruction_list' = InstructionPop(instruction_list)
            /\ dequeued' = Append(dequeued, InstructionFront(instruction_list).id)
    /\ UNCHANGED <<is_exit, thpoolman_sem, thread_list_lock, thread_list,
                   stopper, client, await_sem, pushed, finished>>
    /\ PageListUnchanged

\* Variant: a worker that finds the exit flag set when the function returns
\* leaves without the release.
WorkerAfterRun_Breaks(exit_flag) == IF exit_flag THEN "exit" ELSE "release"

\* Worker: what follows the return of param.pfunc, whatever the exit flag is:
\* the release of param.psem (lines 165-172).
WorkerAfterRun(exit_flag) == "release"

\* Worker: param.pfunc(s3fscurl, param.args) has returned (line 167).
WorkerRun(w) ==
    /\ worker[w].pc = "run"
    /\ finished' = finished \cup {worker[w].param.id}
    /\ WorkerGoes(w, WorkerAfterRun(is_exit))
    /\ UNCHANGED <<is_exit, thpoolman_sem, instruction_list, thread_list_lock, thread_list,
                   stopper, client, await_sem, pushed, dequeued>>
    /\ PageListUnchanged

\* Worker: param.psem->release() (lines 170-172)
WorkerRelease(w) ==
    /\ worker[w].pc = "release"
    /\ await_sem' = [await_sem EXCEPT ![worker[w].param.psem] = @ + 1]
    /\ worker' = [worker EXCEPT ![w] = [pc |-> "while", param |-> 0]]
    /\ UNCHANGED <<is_exit, thpoolman_sem, instruction_list, thread_list_lock, thread_list,
                   stopper, client, pushed, dequeued, finished>>
    /\ PageListUnchanged

\* Worker: promise.set_value(0), the thread ends (lines 175-180).
WorkerExit(w) ==
    /\ worker[w].pc = "exit"
    /\ WorkerGoes(w, "done")
    /\ UNCHANGED <<is_exit, thpoolman_sem, instruction_list, thread_list_lock, thread_list,
                   stopper, client, await_sem, pushed, dequeued, finished>>
    /\ PageListUnchanged

\* ThreadPoolMan::Destroy -> ~ThreadPoolMan -> StopThreads: the lock_guard of
\* line 220 is held until StopThreads returns.
StopLock ==
    /\ stopper.pc = "idle"
    /\ thread_list_lock = "none"
    /\ thread_list_lock' = "stopper"
    /\ stopper' = [stopper EXCEPT !.pc = "set_exit"]
    /\ UNCHANGED <<is_exit, thpoolman_sem, instruction_list, thread_list, worker, client,
                   await_sem, pushed, dequeued, finished>>
    /\ PageListUnchanged

\* StopThreads: SetExitFlag(true) (line 228)
StopSetExitFlag ==
    /\ stopper.pc = "set_exit"
    /\ is_exit' = TRUE
    /\ stopper' = [stopper EXCEPT !.pc = "release", !.waitcnt = Len(thread_list)]
    /\ UNCHANGED <<thpoolman_sem, instruction_list, thread_list_lock, thread_list, worker,
                   client, await_sem, pushed, dequeued, finished>>
    /\ PageListUnchanged

\* StopThreads: one thpoolman_sem.release() for every thread (lines 229-231)
StopRelease ==
    /\ stopper.pc = "release"
    /\ IF 0 < stopper.waitcnt
       THEN /\ thpoolman_sem' = thpoolman_sem + 1
            /\ stopper' = [stopper EXCEPT !.waitcnt = @ - 1]
       ELSE /\ stopper' = [stopper EXCEPT !.pc = "join"]
            /\ UNCHANGED thpoolman_sem
    /\ UNCHANGED <<is_exit, instruction_list, thread_list_lock, thread_list, worker,
                   client, await_sem, pushed, dequeued, finished>>
    /\ PageListUnchanged

\* StopThreads: join() of the next thread of thread_list (lines 234-238)
StopJoin ==
    /\ stopper.pc = "join"
    /\ IF stopper.joined < Len(thread_list)
       THEN /\ worker[thread_list[stopper.joined + 1]].pc = "done"
            /\ stopper' = [stopper EXCEPT !.joined = @ + 1]
       ELSE stopper' = [stopper EXCEPT !.pc = "clear"]
    /\ UNCHANGED <<is_exit, thpoolman_sem, instruction_list, thread_list_lock, thread_list,
                   worker, client, await_sem, pushed, dequeued, finished>>
    /\ PageListUnchanged

\* StopThreads: thread_list.clear(), the semaphore is reset, the lock is
\* released, StopThreads returns (lines 239-246).
StopReturn ==
    /\ stopper.pc = "clear"
    /\ thread_list' = <<>>
    /\ thpoolman_sem' = 0
    /\ thread_list_lock' = "none"
    /\ stopper' = [stopper EXCEPT !.pc = "returned"]
    /\ UNCHANGED <<is_exit, instruction_list, worker, client, await_sem, pushed, dequeued,
                   finished>>
    /\ PageListUnchanged

WorkerStep(w) ==
    \/ WorkerWhile(w)
    \/ WorkerAcquire(w)
    \/ WorkerCheck(w)
    \/ WorkerGetInstruction(w)
    \/ WorkerRun(w)
    \/ WorkerRelease(w)
    \/ WorkerExit(w)

StopStep ==
    \/ StopLock
    \/ StopSetExitFlag
    \/ StopRelease
    \/ StopJoin
    \/ StopReturn

ClientStep(c) ==
    \/ ClientSetInstruction(c)
    \/ ClientRelease(c)
    \/ ClientAwait(c)
    \/ ClientReturned(c)

PoolNext ==
    \/ \E c \in Clients : ClientStep(c)
    \/ \E w \in Workers : WorkerStep(w)
    \/ StopStep

SpecPool == PoolInitState /\ [][PoolNext]_vars

\* The pool at work under fair scheduling: no shutdown is started, every
\* thread that can take a step takes one in the end.
RunNext ==
    \/ \E c \in Clients : ClientStep(c)
    \/ \E w \in Workers : WorkerStep(w)

RunFairness ==
    /\ \A w \in Workers : WF_vars(WorkerStep(w))
    /\ \A c \in Clients : WF_vars(ClientRelease(c))

SpecRun == PoolInitState /\ [][RunNext]_vars /\ RunFairness

\* A call seen step by step: the tests of Instruct / AwaitInstruct, then the
\* lock_guard of SetInstruction, with a Destroy that may come in between.
\* The clients whose call has passed the tests and has not pushed its job.
AcceptedClients == { c \in Clients : client[c].pc = "accepted" }

\* Instruct / AwaitInstruct: the singleton and param.psem are tested, the
\* call goes on to singleton->SetInstruction (lines 83-90, 97-114).
ClientAccept(c) ==
    /\ client[c].pc = "idle"
    /\ pushed + Cardinality(AcceptedClients) < MaxJobs
    /\ \E wait \in BOOLEAN, has_psem \in BOOLEAN :
         /\ CallAccepted(wait, has_psem)
         /\ client' = [client EXCEPT ![c] = [pc |-> "accepted", job |-> 0, wait |-> wait,
                                              has_psem |-> has_psem]]
    /\ UNCHANGED <<is_exit, thpoolman_sem, instruction_list, thread_list_lock, thread_list,
                   worker, stopper, await_sem, pushed, dequeued, finished>>
    /\ PageListUnchanged

\* SetInstruction: lock_guard(thread_list_lock) and push_back (lines 280-283).
\* Once StopThreads has returned the ThreadPoolMan is destroyed (lines 57-60)
\* and the call works on a dead object: it may go on as on a live one or
\* never come back.
ClientPush(c) ==
    /\ client[c].pc = "accepted"
    /\ thread_list_lock = "none"
    /\ \E goes_on \in (IF stopper.pc = "returned" THEN BOOLEAN ELSE {TRUE}) :
         IF goes_on
         THEN /\ client' = [client EXCEPT ![c] = [pc |-> "pushed", job |-> pushed + 1,
                                                   wait |-> client[c].wait]]
              /\ instruction_list' = Append(instruction_list,
                                            [id |-> pushed + 1, psem |-> pushed + 1,
                                             wait |-> client[c].wait,
                                             has_psem |-> client[c].has_psem])
              /\ pushed' = pushed + 1
              /\ await_sem' = Append(await_sem, 0)
         ELSE /\ client' = [client EXCEPT ![c] = [pc |-> "undefined", job |-> 0,
                                                   wait |-> client[c].wait]]
              /\ UNCHANGED <<instruction_list, pushed, await_sem>>
    /\ UNCHANGED <<is_exit, thpoolman_sem, thread_list_lock, thread_list, worker, stopper,
                   dequeued, finished>>
    /\ PageListUnchanged

InstructNext ==
    \/ \E c \in Clients : ClientAccept(c)
    \/ \E c \in Clients : ClientPush(c)
    \/ \E c \in Clients : ClientRelease(c)
    \/ \E c \in Clients : ClientAwait(c)
    \/ \E c \in Clients : ClientReturned(c)
    \/ \E w \in Workers : WorkerStep(w)
    \/ StopStep

SpecInstruct == PoolInitState /\ [][InstructNext]_vars

\* The calls of the clients, accepted and refused, around a pool that runs
\* and shuts down.
\* Number of jobs handed in while calls are refused.
MaxCallJobs == 1

CallSetInstruction(c) == pushed < MaxCallJobs /\ ClientSetInstruction(c)

CallsNext ==
    \/ \E c \in Clients : ClientRefused(c)
    \/ \E c \in Clients : CallSetInstruction(c)
    \/ \E c \in Clients : ClientRelease(c)
    \/ \E c \in Clients : ClientAwait(c)
    \/ \E c \in Clients : ClientReturned(c)
    \/ \E w \in Workers : WorkerStep(w)
    \/ StopStep
    \/ Return

SpecCalls == PoolInitState /\ [][CallsNext]_vars

\* The life of the singleton: Initialize and Destroy are called by one thread
\* (stopper), jobs are handed in and run in between.
\* Variant: Initialize does not look at the singleton.
InitializeAborts_Never(has_singleton) == FALSE

\* ThreadPoolMan::Initialize, the constructor: abort() when the singleton
\* exists (lines 45-48, 191-194).
InitializeAborts(has_singleton) == has_singleton

\* The process has ended in abort().
Aborted == last.op = "Initialize" /\ last.aborted

\* No ThreadPoolMan has been constructed: no thread, no job.
LifeInitState ==
    /\ pages = <<>>
    /\ is_shrink = FALSE
    /\ last = NoCall
    /\ is_exit = FALSE
    /\ thpoolman_sem = 0
    /\ instruction_list = <<>>
    /\ thread_list_lock = "none"
    /\ thread_list = <<>>
    /\ worker = [w \in Workers |-> [pc |-> "none", param |-> 0]]
    /\ stopper = [pc |-> "none", waitcnt |-> 0, joined |-> 0]
    /\ client = [c \in Clients |-> [pc |-> "idle", job |-> 0, wait |-> FALSE]]
    /\ await_sem = <<>>
    /\ pushed = 0
    /\ dequeued = <<>>
    /\ finished = {}

\* ThreadPoolMan::Initialize(count) with 1 <= count: SetWorkerCount(count),
\* then make_unique<ThreadPoolMan>(worker_count), whose constructor sets
\* is_exit and thpoolman_sem and runs StartThreads(count) (lines 43-55,
\* 185-201, 248-275).  It is called where no Destroy is running.
DoInitialize ==
    /\ last.op = "none"
    /\ stopper.pc \in {"none", "idle", "returned"}
    /\ \E count \in 1..PoolWorkers :
         IF InitializeAborts(HasSingleton)
         THEN /\ last' = [op |-> "Initialize", count |-> count, aborted |-> TRUE]
              /\ UNCHANGED poolvars
         ELSE /\ last' = [op |-> "Initialize", count |-> count, aborted |-> FALSE]
              /\ is_exit' = FALSE
              /\ thpoolman_sem' = 0
              /\ instruction_list' = <<>>
              /\ thread_list' = [i \in 1..count |-> i]
              /\ worker' = [w \in Workers |->
                              IF w <= count THEN [pc |-> "while", param |-> 0]
                              ELSE [pc |-> "none", param |-> 0]]
              /\ stopper' = [pc |-> "idle", waitcnt |-> 0, joined |-> 0]
              /\ UNCHANGED <<thread_list_lock, client, await_sem, pushed, dequeued,
                             finished>>
    /\ UNCHANGED <<pages, is_shrink>>

\* The thread that hands in jobs while the singleton is created and destroyed.
LifeClient == "c1"

LifeStep ==
    \/ DoInitialize
    \/ CallSetInstruction(LifeClient)
    \/ ClientRelease(LifeClient)
    \/ ClientAwait(LifeClient)
    \/ ClientReturned(LifeClient)
    \/ \E w \in Workers : WorkerStep(w)
    \/ StopStep
    \/ Return

\* Nothing runs after abort().
LifeNext == ~Aborted /\ LifeStep

SpecLife == LifeInitState /\ [][LifeNext]_vars

\* ------------------------------------------------------------------ properties
InPage(p, b) == p.offset <= b /\ b < next(p)

\* The (loaded, modified) pairs of the pages of pgs that hold byte b.
FlagsAt(pgs, b) ==
    { <<pgs[i].loaded, pgs[i].modified>> : i \in { j \in 1..Len(pgs) : InPage(pgs[j], b) } }

ModifiedAt(pgs, b) == \E i \in 1..Len(pgs) : InPage(pgs[i], b) /\ pgs[i].modified

Contiguous(pgs) == \A i \in 1..(Len(pgs) - 1) : next(pgs[i]) = pgs[i + 1].offset

\* pgs is a partition of [0, Size(pgs)) that starts with a page at offset 0.
GapFreeFromZero(pgs) ==
    /\ pgs # <<>>
    /\ pgs[1].offset = 0
    /\ Contiguous(pgs)
    /\ Size(pgs) = pgs[Len(pgs)].offset + pgs[Len(pgs)].bytes

\* pgs covers exactly [0, n): no gaps, no overlaps, no empty pages.
CoversExactly(pgs, n) ==
    /\ \A i \in 1..Len(pgs) : 0 < pgs[i].bytes
    /\ IF pgs = <<>> THEN n = 0
       ELSE pgs[1].offset = 0 /\ Contiguous(pgs) /\ next(pgs[Len(pgs)]) = n

NoCoalescable(pgs) ==
    \A i \in 1..(Len(pgs) - 1) :
        <<pgs[i].loaded, pgs[i].modified>> # <<pgs[i + 1].loaded, pgs[i + 1].modified>>

AfterPublicOp ==
    \/ last.op \in {"Init", "Resize", "SetPageLoadedStatus", "Parse", "Compress", "ClearAllModified"}
    \/ (last.op = "Deserialize" /\ last.ret)

AfterCompress ==
    \/ last.op \in {"Compress", "Resize", "ClearAllModified"}
    \/ (last.op = "SetPageLoadedStatus" /\ last.is_compress)

AfterPlan == last.op = "GetPageListsForMultipartUpload"

Max(a, b) == IF a < b THEN b ELSE a

\* C1 as stated: after every public operation the list has a first page at
\* offset 0, consecutive pages touch, and Size() is the end of the last page.
C1_AlwaysPartition == AfterPublicOp => GapFreeFromZero(pages)

\* C1 (amended): after every public operation the list is either empty, with
\* Size() = 0 -- which happens only when Resize(0, ...) truncates a list that
\* holds bytes, when Deserialize reads a stats file without page lines, or when
\* the list was empty before -- or it is a gap-free partition that starts at
\* offset 0 and ends at Size().
C1_PartitionOrEmpty ==
    AfterPublicOp =>
        IF pages = <<>>
        THEN /\ Size(pages) = 0
             /\ \/ (last.op = "Resize" /\ last.size = 0 /\ 0 < Size(last.old.pages))
                \/ (last.op = "Deserialize" /\ Len(last.file.text) = 1)
                \/ (last.op \in {"Parse", "Compress", "ClearAllModified"}
                    /\ last.old.pages = <<>>)
        ELSE GapFreeFromZero(pages)

C1_Witness ==
    /\ last.op = "SetPageLoadedStatus"
    /\ ~last.is_compress
    /\ Len(pages) >= 4
    /\ GapFreeFromZero(pages)

\* C2: in every reachable state every page has offset >= 0 and bytes >= 0, and
\* a page without bytes is the only page of its list.
C2_PagesWellFormed ==
    \A i \in 1..Len(pages) :
        /\ pages[i].offset >= 0
        /\ pages[i].bytes >= 0
        /\ (pages[i].bytes = 0 => Len(pages) = 1)

\* A truncation at a page boundary has been done, and the empty file exists.
C2_Witness ==
    /\ last.op = "Resize"
    /\ Len(last.old.pages) >= 2
    /\ last.size = last.old.pages[2].offset
    /\ Len(pages) = 1
    /\ pages[1].bytes > 0

\* C3: right after Compress -- and so after Resize, ClearAllModified and
\* SetPageLoadedStatus with is_compress -- no two adjacent pages have the same
\* (loaded, modified) pair.
C3_NoCoalescableAfterCompress == AfterCompress => NoCoalescable(pages)

C3_Witness ==
    /\ last.op = "Compress"
    /\ Len(last.old.pages) = 4
    /\ Len(pages) = 2

\* C10: SetPageLoadedStatus(start, size, X) with size > 0 gives the flags of X
\* to every byte of [start, start + size), leaves the flags of every other byte
\* below the old Size(), makes Size() the larger of the old Size() and
\* start + size, and leaves is_shrink alone.
C10_SetStatusFrame ==
    (last.op = "SetPageLoadedStatus" /\ last.size > 0) =>
        LET old_size == Size(last.old.pages)
            stop     == last.start + last.size
        IN  /\ \A b \in last.start..(stop - 1) :
                   FlagsAt(pages, b) = {<<StatusLoaded(last.pstatus), StatusModified(last.pstatus)>>}
            /\ \A b \in 0..(old_size - 1) :
                   (b < last.start \/ stop <= b) => FlagsAt(pages, b) = FlagsAt(last.old.pages, b)
            /\ Size(pages) = Max(old_size, stop)
            /\ is_shrink = last.old.is_shrink

\* A range strictly inside the file changed its flags; its neighbours did not.
C10_Witness ==
    /\ last.op = "SetPageLoadedStatus"
    /\ last.size > 0
    /\ 0 < last.start
    /\ last.start + last.size < Size(last.old.pages)
    /\ Len(last.old.pages) >= 2
    /\ pages # last.old.pages
    /\ last.old.is_shrink

\* C4: mixuppages starts at offset 0 and covers exactly [0, Size()), without
\* gaps and without overlaps.
C4_MixupCoversFile == AfterPlan => CoversExactly(last.mixuppages, Size(last.old.pages))

\* A plan with a padded part and a carried rest.
C4_Witness ==
    /\ AfterPlan
    /\ Len(last.mixuppages) >= 2
    /\ last.dlpages # <<>>
    /\ \E i \in 1..Len(last.old.pages) :
          /\ last.old.pages[i].modified
          /\ last.old.pages[i].bytes < last.min_size
          /\ \E j \in 1..Len(last.mixuppages) :
                /\ last.mixuppages[j].offset = last.old.pages[i].offset
                /\ last.mixuppages[j].bytes = last.min_size

\* C5: every page of mixuppages but the last has at least MIN bytes.
C5_MixupMinSize ==
    AfterPlan =>
        \A i \in 1..(Len(last.mixuppages) - 1) : last.mixuppages[i].bytes >= last.min_size

\* A short unmodified area before a modified one became part of a PUT part.
C5_Witness ==
    /\ AfterPlan
    /\ Len(last.old.pages) >= 3
    /\ Len(last.mixuppages) >= 2
    /\ ~last.old.pages[1].modified
    /\ last.old.pages[1].bytes < last.min_size
    /\ last.mixuppages[1].modified

\* C6: every byte that is modified in the input lies in a modified page (a PUT
\* part) of mixuppages, and in no unmodified one.
C6_ModifiedIsPut ==
    AfterPlan =>
        \A b \in 0..(Size(last.old.pages) - 1) :
            ModifiedAt(last.old.pages, b) =>
                /\ ModifiedAt(last.mixuppages, b)
                /\ \A i \in 1..Len(last.mixuppages) :
                       InPage(last.mixuppages[i], b) => last.mixuppages[i].modified

\* A modified area shorter than MIN took in the unmodified bytes after it.
C6_Witness ==
    /\ AfterPlan
    /\ Len(last.old.pages) >= 2
    /\ last.old.pages[1].modified
    /\ last.old.pages[1].bytes < last.min_size
    /\ last.dlpages # <<>>
    /\ last.mixuppages[1].modified
    /\ last.mixuppages[1].bytes > last.old.pages[1].bytes

\* C7, its first and last statement: every byte of the download list lies in
\* an unmodified page of the input; the download list never holds a locally
\* modified byte.
C7_DownloadUnmodified ==
    AfterPlan =>
        \A i \in 1..Len(last.dlpages) :
            \A b \in last.dlpages[i].offset..(next(last.dlpages[i]) - 1) :
                ~ModifiedAt(last.old.pages, b)

\* C8 as stated: every page of both lists has at most MAX bytes.
C8_AllPagesAtMostMax ==
    AfterPlan =>
        /\ \A i \in 1..Len(last.dlpages) : last.dlpages[i].bytes <= last.max_partsize
        /\ \A i \in 1..Len(last.mixuppages) : last.mixuppages[i].bytes <= last.max_partsize

\* C8 (amended): every modified page (PUT part) of mixuppages has at most
\* 2 * MAX bytes; unmodified pages are not split.
C8_PutAtMostTwiceMax ==
    AfterPlan =>
        \A i \in 1..Len(last.mixuppages) :
            last.mixuppages[i].modified => last.mixuppages[i].bytes <= 2 * last.max_partsize

\* A modified area of more than 2 * MAX bytes was split.
C8_Witness ==
    /\ AfterPlan
    /\ Len(last.mixuppages) >= 2
    /\ last.mixuppages[1].modified
    /\ last.mixuppages[2].modified
    /\ last.mixuppages[1].bytes = last.max_partsize
    /\ last.mixuppages[2].bytes > last.max_partsize

\* The scenario: Init(20, true, false); SetPageLoadedStatus(10, 1, MODIFIED),
\* planned with MIN = 5.
Scenario4 ==
    /\ AfterPlan
    /\ last.min_size = 5
    /\ last.old.pages = << fdpage(0, 10, TRUE, FALSE), fdpage(10, 1, FALSE, TRUE),
                           fdpage(11, 9, TRUE, FALSE) >>

\* C9 as stated: three parts, COPY (0,10), PUT (10,5), COPY (15,5), and a
\* download list of exactly the 4 units that pad the PUT part.
C9_ThreeParts ==
    Scenario4 =>
        /\ last.mixuppages = << fdpage(0, 10, FALSE, FALSE), fdpage(10, 5, FALSE, TRUE),
                                fdpage(15, 5, FALSE, FALSE) >>
        /\ last.dlpages = << fdpage(11, 4, FALSE, FALSE) >>

\* C9 (amended): the 9 units after the write are not more than the 4 missing
\* units plus MIN, so all of them are taken: two parts, COPY (0,10) and
\* PUT (10,10), and a download list of exactly the 9 units (11,9).
C9_TwoParts ==
    Scenario4 =>
        /\ last.mixuppages = << fdpage(0, 10, FALSE, FALSE), fdpage(10, 10, FALSE, TRUE) >>
        /\ last.dlpages = << fdpage(11, 9, FALSE, FALSE) >>

C9_Witness == Scenario4 /\ Len(last.mixuppages) = 2

\* A call of SetPageLoadedStatus whose range starts past the end of the list.
PastEndCall ==
    /\ last.op = "SetPageLoadedStatus"
    /\ Size(last.old.pages) < last.start
    /\ last.size > 0

\* The single write of the specification: Init(0, false, false);
\* SetPageLoadedStatus(100, 50, MODIFIED).
SingleWrite ==
    SetPageLoadedStatus(Init(PageList(<<>>, FALSE), 0, FALSE, FALSE), 100, 50, "MODIFIED", TRUE)

\* C11 as stated: the area between the old end and start gets (false, false)
\* whatever X is, and the single write gives two pages with 50 modified bytes.
C11_GapUnmodified ==
    /\ PastEndCall =>
           \A b \in Size(last.old.pages)..(last.start - 1) :
               FlagsAt(pages, b) = {<<FALSE, FALSE>>}
    /\ SingleWrite.pages = << fdpage(0, 100, FALSE, FALSE), fdpage(100, 50, FALSE, TRUE) >>
    /\ BytesModified(SingleWrite) = 50

\* C11 (amended): the area between the old end and start gets loaded = false
\* and the modified flag of X; [start, start + len) gets X; the bytes below
\* the old end keep their flags.  The single write gives the one page
\* (0,150,false,true) and BytesModified() = 150.
C11_GapTakesModifiedOfX ==
    /\ PastEndCall =>
           /\ \A b \in Size(last.old.pages)..(last.start - 1) :
                  FlagsAt(pages, b) = {<<FALSE, StatusModified(last.pstatus)>>}
           /\ \A b \in last.start..(last.start + last.size - 1) :
                  FlagsAt(pages, b) = {<<StatusLoaded(last.pstatus), StatusModified(last.pstatus)>>}
           /\ \A b \in 0..(Size(last.old.pages) - 1) :
                  FlagsAt(pages, b) = FlagsAt(last.old.pages, b)
    /\ SingleWrite.pages = << fdpage(0, 150, FALSE, TRUE) >>
    /\ BytesModified(SingleWrite) = 150

\* A modified write past the end of a file that holds unmodified bytes.
C11_Witness ==
    /\ PastEndCall
    /\ StatusModified(last.pstatus)
    /\ 0 < Size(last.old.pages)
    /\ ~IsModified(last.old)
    /\ BytesModified(Self) = Size(pages) - Size(last.old.pages)

\* A call of Resize that truncates.
TruncatingCall == last.op = "Resize" /\ last.size < Size(last.old.pages)

\* The truncation of the specification: Init(1000, true, false);
\* Resize(400, false, true).
TruncationShrink ==
    Resize(Init(PageList(<<>>, FALSE), 1000, TRUE, FALSE), 400, FALSE, TRUE)

\* C12: Resize(size, l, m) with 0 <= size < Size() leaves Size() = size and the
\* flags of every byte below size; with m it sets is_shrink, so that IsModified()
\* is true even without a modified page; without m it leaves is_shrink alone.
\* Init(1000,true,false); Resize(400,false,true) gives the single page
\* (0,400,true,false) with is_shrink set.
C12_ResizeTruncates ==
    /\ TruncatingCall =>
           /\ Size(pages) = last.size
           /\ \A b \in 0..(last.size - 1) : FlagsAt(pages, b) = FlagsAt(last.old.pages, b)
           /\ (last.is_modified => is_shrink /\ IsModified(Self))
           /\ (~last.is_modified => is_shrink = last.old.is_shrink)
    /\ TruncationShrink = PageList(<<fdpage(0, 400, TRUE, FALSE)>>, TRUE)
    /\ IsModified(TruncationShrink)

\* A truncation inside a page of a file without modified pages set is_shrink.
C12_Witness ==
    /\ TruncatingCall
    /\ last.is_modified
    /\ 0 < last.size
    /\ ~last.old.is_shrink
    /\ \A i \in 1..Len(pages) : ~pages[i].modified
    /\ Len(last.old.pages) >= 2
    /\ pages[Len(pages)].bytes < last.old.pages[Len(pages)].bytes

\* The loaded flags of the pages of pgs that hold byte b.
LoadedAt(pgs, b) == { pgs[i].loaded : i \in { j \in 1..Len(pgs) : InPage(pgs[j], b) } }

\* C13: IsModified() is true exactly when is_shrink is set or some page is
\* modified; right after ClearAllModified, IsModified() is false and
\* BytesModified() is 0, and Size() and the loaded flag of every byte are what
\* they were before the call.
C13_ClearAllModified ==
    /\ IsModified(Self) <=> (is_shrink \/ { i \in 1..Len(pages) : pages[i].modified } # {})
    /\ last.op = "ClearAllModified" =>
           /\ ~IsModified(Self)
           /\ BytesModified(Self) = 0
           /\ Size(pages) = Size(last.old.pages)
           /\ \A b \in 0..(Size(pages) - 1) : LoadedAt(pages, b) = LoadedAt(last.old.pages, b)

\* ClearAllModified was called on a shrunk list with modified bytes between
\* pages of different loaded flags.
C13_Witness ==
    /\ last.op = "ClearAllModified"
    /\ last.old.is_shrink
    /\ BytesModified(last.old) > 0
    /\ BytesModified(last.old) < Size(last.old.pages)
    /\ Len(pages) >= 2

\* Serialize followed by Deserialize, with a stats file that takes the text.
RoundTrip(pl, inode) ==
    Deserialize(pl, StatFile("ok", ReadFields(Serialize(pl, "ok", inode).text)), inode)

\* A list whose numbers have more than one digit.
BigList == PageList(<< fdpage(0, 1000, TRUE, FALSE), fdpage(1000, 234, FALSE, TRUE) >>, FALSE)

BigRoundTrip == RoundTrip(BigList, 4711)

\* The empty file: Init(0, false, false).
EmptyRoundTrip == RoundTrip(Init(BigList, 0, FALSE, FALSE), 4711)

\* C14: Serialize(inode) followed by Deserialize(inode) with the same inode,
\* the file being readable, succeeds and gives the pages of the compressed form of the list that was
\* written, for every reachable list, the empty file Init(0,false,false)
\* included.
C14_RoundTrip ==
    /\ (/\ last.op = "Deserialize" /\ last.after.op = "Serialize"
        /\ last.inode = last.after.inode /\ last.file.io = "ok") =>
           /\ last.ret
           /\ pages = Compress(last.old).pages
           /\ Size(pages) = Size(last.old.pages)
           /\ \A b \in 0..(Size(pages) - 1) : FlagsAt(pages, b) = FlagsAt(last.old.pages, b)
    /\ BigRoundTrip = [ret |-> TRUE, pl |-> BigList]
    /\ EmptyRoundTrip = [ret |-> TRUE, pl |-> Init(BigList, 0, FALSE, FALSE)]

\* A list that was not compressed came back compressed, with its modified
\* bytes.
C14_Witness ==
    /\ last.op = "Deserialize"
    /\ last.after.op = "Serialize"
    /\ last.file.io = "ok"
    /\ last.inode = last.after.inode
    /\ Len(last.old.pages) >= 3
    /\ Len(pages) = 2
    /\ pages[2].modified

\* Deserialize has read a stats file with a head line.
ReadHead == last.op = "Deserialize" /\ last.file.io = "ok" /\ last.file.text # <<>>

\* C15: when the head line has the form <inode>:<size> and its inode is not
\* the caller's, Deserialize returns false and the list holds no page; a head
\* line of the old form <size> is accepted whatever the caller's inode is.
C15_InodeChecked ==
    ReadHead =>
        LET head == Head(last.file.text) IN
        /\ (Len(head) = 2 /\ head[1] # last.inode) => (~last.ret /\ pages = <<>>)
        /\ Len(head) = 1 =>
               /\ \A i \in Inodes :
                      Deserialize(last.old, last.file, i) = [ret |-> last.ret, pl |-> Self]
               /\ LET loaded == DeserializeLines(Clear(last.old), Tail(last.file.text)) IN
                      last.ret = (~loaded.is_err /\ Size(loaded.pl.pages) = head[1])

\* A stats file that is consistent, but bound to another inode, was refused.
C15_Witness ==
    /\ ReadHead
    /\ Len(last.file.text) = 2
    /\ last.file.text[1] = <<1, 2>>
    /\ last.file.text[2] = <<0, 2, 1, 0>>
    /\ last.inode = 2
    /\ ~last.ret

\* C16: after a successful Deserialize of a file with a head line, Size() is
\* the size of the head line; when the size rebuilt from the page lines is not
\* the size of the head line, Deserialize returns false and the list is empty.
C16_SizeChecked ==
    (ReadHead /\ Len(Head(last.file.text)) >= 1) =>
        LET head   == Head(last.file.text)
            total  == IF Len(head) = 1 THEN head[1] ELSE head[2]
            loaded == DeserializeLines(Clear(last.old), Tail(last.file.text))
        IN  /\ last.ret => Size(pages) = total
            /\ Size(loaded.pl.pages) # total => (~last.ret /\ pages = <<>>)

\* A well-formed file whose page line gives more bytes than its head line.
C16_Witness ==
    /\ ReadHead
    /\ last.file.text = << <<1, 1>>, <<0, 2, 1, 0>> >>
    /\ last.inode = 1
    /\ ~last.ret
    /\ pages = <<>>

\* CompareSparseFile has returned and its probe of the file had succeeded.
Compared ==
    /\ last.op = "CompareSparseFile"
    /\ ~(last.file.io = "lseek_fail" /\ 0 < last.file_size)

\* Byte b of the file lies in a hole and in a page that is loaded or modified.
ClaimedInHole(b) ==
    /\ BlockAt(last.file, b) = "hole"
    /\ \E i \in 1..Len(pages) : InPage(pages[i], b) /\ (pages[i].loaded \/ pages[i].modified)

\* The clean file of N bytes in one block, and the file of 16384 bytes in
\* blocks of 4096 with a hole at [4096, 8192).
CleanCompare ==
    CompareSparseFile(PageList(<<fdpage(0, 16384, TRUE, FALSE)>>, FALSE),
                      CacheFile("ok", 16384, <<"data">>), 16384)

HoleCompare ==
    CompareSparseFile(PageList(<<fdpage(0, 16384, TRUE, FALSE)>>, FALSE),
                      CacheFile("ok", 4096, <<"data", "hole", "data", "data">>), 16384)

\* C17: when the probe succeeds and file_size is Size(), CompareSparseFile
\* returns true exactly when both lists are empty, and err_list is not empty
\* exactly when some byte of a loaded or modified page lies in a hole of the
\* file.  A fully allocated file under (0,N,true,false) gives true and empty
\* lists; a hole at [4096,8192) under (0,16384,true,false) gives false and
\* (4096,4096,false,false) in err_list.
C17_CompareSparseFile ==
    /\ Compared =>
           /\ last.result <=> (last.err_area_list = <<>> /\ last.warn_area_list = <<>>)
           /\ last.err_area_list # <<>> <=> \E b \in 0..(last.file_size - 1) : ClaimedInHole(b)
    /\ CleanCompare = [result |-> TRUE, err_area_list |-> <<>>, warn_area_list |-> <<>>]
    /\ HoleCompare = [result |-> FALSE, err_area_list |-> <<fdpage(4096, 4096, FALSE, FALSE)>>,
                      warn_area_list |-> <<>>]

\* A hole under the middle of a loaded page was reported.
C17_Witness ==
    /\ Compared
    /\ pages = <<fdpage(0, 4, TRUE, FALSE)>>
    /\ last.file = CacheFile("ok", 1, <<"data", "hole", "data", "data">>)
    /\ last.err_area_list = <<fdpage(1, 1, FALSE, FALSE)>>
    /\ ~last.result

\* StopThreads has been entered and has not returned.
Stopping == stopper.pc \in {"set_exit", "release", "join", "clear"}

\* C18 as stated: shutdown always terminates -- while StopThreads has not
\* returned, the shutdown thread or one of the workers it waits for can take
\* a step; they never block each other on thread_list_lock.
C18_ShutdownNeverStuck ==
    Stopping => ENABLED (StopStep \/ \E w \in Workers : WorkerStep(w))

\* C19: AwaitInstruct returns true only after a worker has taken its job from
\* the list and the function of the job has returned.
C19_AwaitAfterFinished ==
    \A c \in Clients :
        client[c].pc = "returned" =>
            /\ client[c].job \in finished
            /\ \E i \in 1..Len(dequeued) : dequeued[i] = client[c].job

\* AwaitInstruct has returned for the second job while the first, handed in
\* without waiting, is still running.
C19_Witness ==
    \E c \in Clients :
        /\ client[c].pc = "returned"
        /\ client[c].job = 2
        /\ 1 \notin finished
        /\ \E w \in Workers : worker[w].pc = "run" /\ worker[w].param.id = 1

\* C20: jobs are taken from the list in the order they were put on it (job
\* numbers are given in the order of push_back): the jobs taken so far are
\* the first jobs pushed, in order.
C20_Fifo ==
    /\ \A i \in 1..Len(dequeued) : dequeued[i] = i
    /\ \A i \in 1..Len(instruction_list) : instruction_list[i].id = Len(dequeued) + i

\* Two jobs were in the list at once and both were taken, by different
\* workers.
C20_Witness ==
    /\ dequeued = <<1, 2>>
    /\ \E w \in Workers : worker[w].pc = "run" /\ worker[w].param.id = 1
    /\ \E w \in Workers : worker[w].pc = "run" /\ worker[w].param.id = 2

\* The jobs in the list and in the hands of the workers.
JobsHandedIn ==
    { instruction_list[i] : i \in 1..Len(instruction_list) }
    \cup { worker[w].param : w \in { v \in Workers : worker[v].pc \in {"run", "release"} } }

\* A step in which Instruct or AwaitInstruct returns false.
RefusedCall == last.op = "none" /\ last'.op \in {"Instruct", "AwaitInstruct"}

\* C21: Instruct without a completion semaphore, AwaitInstruct with one, and
\* either call while no pool exists return false, put nothing on the list and
\* do not release thpoolman_sem: no job of such a call is ever in the list or
\* run, and the step of a refused call changes nothing of the pool.
C21_InvalidJobRefused ==
    /\ [](\A job \in JobsHandedIn : job.has_psem = ~job.wait)
    /\ [][RefusedCall => (~last'.ret /\ UNCHANGED poolvars)]_vars
    /\ [][(~HasSingleton /\ pushed' # pushed) => FALSE]_vars
    /\ [][(~HasSingleton /\ \A c \in Clients : client[c].pc # "pushed")
               => thpoolman_sem' <= thpoolman_sem \/ stopper.pc = "release"]_vars

\* Instruct without a semaphore was refused while a job was in the list.
C21_Witness ==
    /\ last.op = "Instruct"
    /\ ~last.has_psem
    /\ last.has_singleton
    /\ ~last.ret
    /\ instruction_list # <<>>

\* The threads that have been started and have not ended.
LiveWorkers == { w \in Workers : worker[w].pc \notin {"none", "done"} }

InitializeCall == last.op = "none" /\ last'.op = "Initialize"

\* C22: at most one pool exists.  Initialize while the singleton exists
\* aborts the process: it creates no pool and no thread, and nothing runs
\* afterwards; Initialize creates the singleton only where no pool and no
\* thread of an earlier pool is left, so the running threads are always those
\* of the one thread_list.
C22_OnePool ==
    /\ [][(InitializeCall /\ HasSingleton) => (last'.aborted /\ UNCHANGED poolvars)]_vars
    /\ [][(InitializeCall /\ ~last'.aborted)
             => (~HasSingleton /\ LiveWorkers = {} /\ thread_list = <<>> /\ HasSingleton'
                 /\ LiveWorkers' = 1..last'.count /\ Len(thread_list') = last'.count)]_vars
    /\ [][~Aborted]_vars
    /\ [](LiveWorkers \subseteq { thread_list[i] : i \in 1..Len(thread_list) })
    /\ [](Len(thread_list) <= PoolWorkers)

C22_Witness ==
    /\ Aborted
    /\ LiveWorkers # {}
    /\ stopper.pc = "idle"
    /\ finished # {}

\* The bytes of [start, start + size), to the end of the list when size is 0.
InRange(b, start, size) == start <= b /\ (size = 0 \/ b < start + size)

Intersects(p, start, size) ==
    \E b \in p.offset..(next(p) - 1) : InRange(b, start, size)

\* The ranges asked for: inside the list, at its end and past it.
RangeStarts == 0..(MaxSize + 1)

RangeSizes == 0..(MaxSize + 1)

\* C23: IsPageLoaded(start, length) is true exactly when every page that
\* intersects [start, start+length) is loaded (length 0: to the end of the
\* list), for every list the operations produce, the empty file and ranges
\* starting at or past Size() included.
C23_IsPageLoaded ==
    \A start \in RangeStarts, size \in RangeSizes :
        IsPageLoaded(pages, start, size)
            = (\A i \in 1..Len(pages) : Intersects(pages[i], start, size) => pages[i].loaded)

\* The same with a page without bytes counted as lying at offset 0.
C23_ExceptZeroPage ==
    \A start \in RangeStarts, size \in RangeSizes :
        IsPageLoaded(pages, start, size)
            = (\A i \in 1..Len(pages) :
                   (Intersects(pages[i], start, size) \/ (pages[i].bytes = 0 /\ start = 0))
                       => pages[i].loaded)

\* The number of bytes of page p inside [start, start + size) (size 0: to the
\* end of the list).
Overlap(p, start, size) ==
    Cardinality({ b \in p.offset..(next(p) - 1) : InRange(b, start, size) })

RECURSIVE SumOverPages(_, _, _, _, _)
SumOverPages(pgs, start, size, limit, whole) ==
    IF pgs = <<>> THEN 0
    ELSE LET p == Head(pgs)
             measured == IF whole THEN p.bytes ELSE Overlap(p, start, size)
         IN  (IF ~p.loaded /\ ~p.modified /\ (limit = 0 \/ measured < limit)
              THEN Overlap(p, start, size) ELSE 0)
             + SumOverPages(Tail(pgs), start, size, limit, whole)

RangeLimits == 0..(MaxSize + 1)

\* No operation of the list is under way: where a caller asks.
BetweenCalls == last.op = "none"

\* C24 as stated: GetTotalUnloadedPageSize(start, length, limit) is the sum,
\* over the pages that are unloaded and unmodified, of the length of their
\* intersection with [start, start+length) (length 0: to the end); with
\* limit > 0 every page whose total length is >= limit is left out, with
\* limit = 0 none is.
C24_LimitOnPageLength ==
    \A start \in RangeStarts, size \in RangeSizes, limit \in RangeLimits :
        BetweenCalls => GetTotalUnloadedPageSize(pages, start, size, limit)
            = SumOverPages(pages, start, size, limit, TRUE)

\* C24 amended: with limit > 0 a page is left out when the length of its
\* intersection with the range is >= limit.
C24_LimitOnIntersection ==
    \A start \in RangeStarts, size \in RangeSizes, limit \in RangeLimits :
        BetweenCalls => GetTotalUnloadedPageSize(pages, start, size, limit)
            = SumOverPages(pages, start, size, limit, FALSE)

\* A page of four unloaded bytes asked for one byte with limit 2: the byte is
\* counted although the page is longer than the limit.
C24_Witness ==
    /\ BetweenCalls
    /\ pages = <<fdpage(0, 4, FALSE, FALSE)>>
    /\ GetTotalUnloadedPageSize(pages, 0, 1, 2) = 1
    /\ GetTotalUnloadedPageSize(pages, 0, 0, 2) = 0
    /\ GetTotalUnloadedPageSize(pages, 0, 0, 0) = 4

\* The bytes of the list pgs.
BytesOf(pgs) == { b \in 0..(Size(pgs) - 1) : \E i \in 1..Len(pgs) : InPage(pgs[i], b) }

\* The bytes of the PUT parts: the modified pages of mixuppages.
PutBytes == BytesOf(SelectSeq(last.mixuppages, LAMBDA p : p.modified))

\* C25: every byte of a PUT part of the plan is modified in the list the
\* planner was given or lies in the download list it returns.
C25_PutBytesAvailable ==
    AfterPlan =>
        \A b \in PutBytes : ModifiedAt(last.old.pages, b) \/ b \in BytesOf(last.dlpages)

\* A PUT part that holds bytes that are not modified locally, next to a part
\* that is copied.
C25_Witness ==
    /\ AfterPlan
    /\ \E b \in PutBytes : ~ModifiedAt(last.old.pages, b)
    /\ \E i \in 1..Len(last.mixuppages) : ~last.mixuppages[i].modified
    /\ BytesOf(last.dlpages) # BytesOf(last.old.pages)

\* The operations that keep the mark of a truncation.
KeepsShrink == {"Resize", "SetPageLoadedStatus", "Parse", "Compress"}

\* C26: once Resize has set is_shrink, every Resize (also of a list that has
\* no bytes left), SetPageLoadedStatus, Parse and Compress leaves it set, so
\* IsModified() stays true until ClearAllModified or Init.
C26_ShrinkSticks ==
    (last.op \in KeepsShrink /\ last.old.is_shrink) => (is_shrink /\ IsModified(Self))

\* A list truncated to nothing is resized again: no page is modified and the
\* list still counts as modified.
C26_Witness ==
    /\ last.op = "Resize"
    /\ last.old.is_shrink
    /\ Size(last.old.pages) = 0
    /\ 0 < Size(pages)
    /\ \A i \in 1..Len(pages) : ~pages[i].modified
    /\ IsModified(Self)

FailedDeserialize == last.op = "Deserialize" /\ ~last.ret

\* C27: a Deserialize that returns false (open, fstat or read failure, no
\* head line, wrong or differing inode, page line with too few fields, size
\* of the head line not reached) leaves the list as it was or without any
\* page, never with some of the pages of the file.
C27_FailedDeserialize ==
    FailedDeserialize => (pages = last.old.pages \/ pages = <<>>)

\* The file has a page line and the list is empty afterwards.
DeserializeEmptied ==
    /\ FailedDeserialize
    /\ last.file.io = "ok"
    /\ Len(last.file.text) >= 2
    /\ Len(last.file.text[2]) >= 3
    /\ last.file.text[2][2] > 0
    /\ pages = <<>>

\* The file cannot be read and a list with bytes stays as it was.
DeserializeUntouched ==
    /\ FailedDeserialize
    /\ last.file.io = "read_fail"
    /\ Len(pages) >= 2
    /\ pages = last.old.pages
    /\ is_shrink = last.old.is_shrink

C27_Witness == DeserializeEmptied \/ DeserializeUntouched

Min(a, b) == IF a < b THEN a ELSE b

\* Region r is the intersection of page P and segment S, which overlap.
IsIntersection(r, P, S) ==
    /\ Max(P.offset, S.offset) < Min(next(P), next(S))
    /\ r.offset = Max(P.offset, S.offset)
    /\ next(r) = Min(next(P), next(S))

\* The regions CompareSparseFile has reported.
ReportedAreas ==
    { last.err_area_list[i] : i \in 1..Len(last.err_area_list) }
    \cup { last.warn_area_list[i] : i \in 1..Len(last.warn_area_list) }

\* C28: every region appended to err_list or warn_list is the intersection
\* of a page P of the list and a segment S of the probe, whatever their
\* relative position is; it lies inside P and inside S.
C28_AreaIsIntersection ==
    (last.op = "CompareSparseFile" /\ GetSparseFilePages(last.file, last.file_size).ret) =>
        LET sparse_list == GetSparseFilePages(last.file, last.file_size).sparse_list IN
        \A r \in ReportedAreas :
            \E i \in 1..Len(last.old.pages), j \in 1..Len(sparse_list) :
                IsIntersection(r, last.old.pages[i], sparse_list[j])

AfterParsePartsize == last.op = "parse_partsize_fdpage_list"

\* The pages of the result cut from the modified page p of the input.
ChunksOf(p) ==
    SelectSeq(last.parsed, LAMBDA q : q.modified /\ p.offset <= q.offset /\ q.offset < next(p))

\* The chunks lie one after the other from the start of p to its end; all
\* but the last have max bytes, the last has more than max when it is not the
\* only one, and at most 2 * max.
WellCut(chunks, p, max) ==
    /\ chunks # <<>>
    /\ chunks[1].offset = p.offset
    /\ next(chunks[Len(chunks)]) = next(p)
    /\ Contiguous(chunks)
    /\ \A k \in 1..(Len(chunks) - 1) : chunks[k].bytes = max
    /\ 0 < chunks[Len(chunks)].bytes
    /\ chunks[Len(chunks)].bytes <= 2 * max
    /\ Len(chunks) > 1 => max < chunks[Len(chunks)].bytes
    /\ \A k \in 1..Len(chunks) : chunks[k].loaded = p.loaded
    /\ max < p.bytes => \A k \in 1..Len(chunks) : max <= chunks[k].bytes

\* C29: parse_partsize_fdpage_list keeps the bytes and their flags; the pages
\* that are not modified are handed back as they are; a modified page is cut
\* into chunks of exactly MAX while more than 2*MAX remains, so its last
\* chunk has a length in (0, 2*MAX], and no chunk of a page longer than MAX
\* is shorter than MAX.
C29_ParsePartsize ==
    AfterParsePartsize =>
        /\ \A b \in 0..Size(last.input) : FlagsAt(last.parsed, b) = FlagsAt(last.input, b)
        /\ SelectSeq(last.parsed, LAMBDA q : ~q.modified)
               = SelectSeq(last.input, LAMBDA q : ~q.modified)
        /\ \A i \in 1..Len(last.input) :
               (last.input[i].modified /\ 0 < last.input[i].bytes)
                   => WellCut(ChunksOf(last.input[i]), last.input[i], last.max_partsize)

\* A modified page of five bytes cut with MAX = 1 into 1, 1, 1 and 2 bytes,
\* after a page that is not modified and longer than 2 * MAX.
C29_Witness ==
    /\ AfterParsePartsize
    /\ last.max_partsize = 1
    /\ last.input = << fdpage(0, 3, TRUE, FALSE), fdpage(3, 5, FALSE, TRUE) >>
    /\ last.parsed = << fdpage(0, 3, TRUE, FALSE), fdpage(3, 1, FALSE, TRUE),
                        fdpage(4, 1, FALSE, TRUE), fdpage(5, 1, FALSE, TRUE),
                        fdpage(6, 2, FALSE, TRUE) >>

\* The file of the last CompareSparseFile as GetSparseFilePages sees it.
Probed == GetSparseFilePages(last.file, last.file_size)

IsHoleAt(b) == BlockAt(last.file, b) = "hole"

\* Page q is a whole segment of the file: its bytes are all hole or all data,
\* and the bytes next to it are of the other kind.
IsSegment(q) ==
    /\ \A b \in q.offset..(next(q) - 1) : IsHoleAt(b) = ~q.loaded
    /\ 0 < q.offset => IsHoleAt(q.offset - 1) = q.loaded
    /\ next(q) < last.file_size => IsHoleAt(next(q)) = q.loaded

\* C30: for a file of file_size > 0 made of holes and data in any order,
\* GetSparseFilePages ends and returns pages that follow one another from
\* offset 0 to file_size, loaded exactly on the data and not loaded exactly
\* on the holes, none modified; it returns false when both the first
\* SEEK_HOLE and the first SEEK_DATA fail.
C30_SparsePages ==
    (last.op = "CompareSparseFile" /\ 0 < last.file_size) =>
        LET probed      == Probed
            sparse_list == probed.sparse_list
        IN  IF last.file.io = "lseek_fail"
            THEN ~probed.ret
            ELSE /\ probed.ret
                 /\ sparse_list # <<>>
                 /\ sparse_list[1].offset = 0
                 /\ Contiguous(sparse_list)
                 /\ Size(sparse_list) = last.file_size
                 /\ \A i \in 1..Len(sparse_list) :
                        /\ ~sparse_list[i].modified
                        /\ 0 < sparse_list[i].bytes => IsSegment(sparse_list[i])
                 /\ \A b \in 0..(last.file_size - 1) :
                        FlagsAt(sparse_list, b) = { <<~IsHoleAt(b), FALSE>> }

\* Hole, data, hole, data: four pages, and after the data at the end of the
\* file one more page without bytes at file_size.
C30_Witness ==
    /\ last.op = "CompareSparseFile"
    /\ last.file = CacheFile("ok", 1, <<"hole", "data", "hole", "zero">>)
    /\ Probed.sparse_list = << fdpage(0, 1, FALSE, FALSE), fdpage(1, 1, TRUE, FALSE),
                               fdpage(2, 1, FALSE, FALSE), fdpage(3, 1, TRUE, FALSE),
                               fdpage(4, 0, FALSE, FALSE) >>

\* The jobs taken from the list so far.
Dequeued == { dequeued[i] : i \in 1..Len(dequeued) }

\* Worker w has job j in its hands: taken from the list, semaphore not yet
\* released.
Holds(w, j) == worker[w].pc \in {"run", "release"} /\ worker[w].param.id = j

\* The function of job j has returned and its semaphore has been released.
Completed(j) == j \in finished /\ j \in Dequeued /\ \A w \in Workers : ~Holds(w, j)

\* A shutdown has been started or a worker has left its loop (shutdown, or
\* CreateCurlHandle has failed).
Disturbed == stopper.pc # "idle" \/ \E w \in Workers : worker[w].pc \in {"exit", "done"}

\* C31: every accepted job is executed exactly once.  No job is taken from
\* the list twice or held by two workers, its completion semaphore is
\* released only by the worker that holds it after the function has
\* returned, and by one; while no shutdown is started and CreateCurlHandle
\* succeeds, under fair scheduling every accepted job is run in the end and
\* its semaphore released.
C31_ExactlyOnce ==
    /\ [](\A i, k \in 1..Len(dequeued) : dequeued[i] = dequeued[k] => i = k)
    /\ [](\A j \in 1..pushed : \A v, w \in Workers : (Holds(v, j) /\ Holds(w, j)) => v = w)
    /\ [](\A j \in 1..pushed : (\E w \in Workers : Holds(w, j)) => j \in Dequeued)
    /\ [][\A j \in 1..pushed :
             await_sem'[j] > await_sem[j] =>
                 /\ await_sem'[j] = await_sem[j] + 1
                 /\ j \in finished
                 /\ \E w \in Workers : Holds(w, j) /\ worker[w].pc = "release"
                 /\ Completed(j)']_vars
    /\ \A j \in 1..MaxJobs : (j <= pushed) ~> (Completed(j) \/ Disturbed)

\* The second job has been run and its semaphore released while a worker
\* still holds the first.
C31_Witness ==
    /\ ~Disturbed
    /\ pushed = 2
    /\ Completed(2)
    /\ \E w \in Workers : Holds(w, 1)

\* The job worker w has taken from the list and not yet released, 0 if none.
JobOf(w) == IF worker[w].pc \in {"run", "release"} THEN worker[w].param.id ELSE 0

\* C32: shutdown never interrupts a running job.  A worker that has taken a
\* job keeps it, whatever the exit flag is, until the function has returned
\* and it has released the job's semaphore, and only then is it back at the
\* head of the loop; a worker reaches the end of the thread only from a read
\* of the exit flag or of CreateCurlHandle, where it holds no job; and every
\* job taken from the list is in the hands of a worker or has completed.
C32_NoInterrupt ==
    /\ [][\A w \in Workers :
             JobOf(w) # 0 =>
                 \/ JobOf(w)' = JobOf(w)
                 \/ /\ worker[w].pc = "release"
                    /\ worker'[w].pc = "while"
                    /\ JobOf(w) \in finished
                    /\ await_sem'[JobOf(w)] = await_sem[JobOf(w)] + 1]_vars
    /\ [][\A w \in Workers :
             (worker'[w].pc = "exit" /\ worker[w].pc # "exit") =>
                 worker[w].pc \in {"while", "check"}]_vars
    /\ [](\A j \in Dequeued : (\E w \in Workers : JobOf(w) = j) \/ j \in finished)

\* The exit flag is set and a worker, still holding its job, has come back
\* from the job's function and is about to release the job's semaphore.
C32_Witness ==
    /\ is_exit
    /\ \E w \in Workers : worker[w].pc = "release" /\ JobOf(w) \in finished


\* A call of Instruct that has passed the tests and has not returned.
InInstruct(c) == client[c].pc \in {"accepted", "pushed"} /\ ~client[c].wait

\* C33 as stated: Instruct never blocks -- a call of Instruct that has been
\* accepted can always take its next step, the push_back or the release of
\* thpoolman_sem, whatever the workers and a shutdown are doing.
C33_InstructNeverBlocks ==
    \A c \in Clients :
        InInstruct(c) => ENABLED (ClientPush(c) \/ ClientRelease(c))


\* A worker that has taken a permit of thpoolman_sem and not yet a job.
HasPermit(w) == worker[w].pc \in {"check", "lock"}

\* C34 as stated: a worker leaves its loop only after it has seen the exit
\* flag set; until Destroy starts every worker thread is alive; and a worker
\* that has taken a permit goes on, as long as the exit flag is false, to take
\* one job from the list.
C34_LeavesOnExitFlagOnly ==
    /\ [][\A w \in Workers :
             (worker'[w].pc = "exit" /\ worker[w].pc # "exit") => is_exit]_vars
    /\ [](HasSingleton => LiveWorkers = Workers)
    /\ [][\A w \in Workers :
             (HasPermit(w) /\ ~is_exit /\ worker'[w] # worker[w]) =>
                 \/ HasPermit(w)'
                 \/ /\ worker'[w].pc = "run"
                    /\ Len(dequeued') = Len(dequeued) + 1]_vars


\* Parse(last.new_pos) has just run on the list last.old.
AfterParse == last.op = "Parse"

\* The offsets at which a page of pgs starts.
PageOffsets(pgs) == { pgs[i].offset : i \in 1..Len(pgs) }

\* C35 as stated: Parse(pos) returns false only for a pos beyond the end of
\* the list; on a list with pages it returns true for every pos from 0 to
\* Size(), the end included; when it returns false the list is unchanged.
C35_ParseFalseBeyondEnd ==
    AfterParse =>
        /\ ~last.ret => Size(last.old.pages) < last.new_pos
        /\ (last.old.pages # <<>> /\ last.new_pos <= Size(last.old.pages)) => last.ret
        /\ ~last.ret => Self = last.old

\* C35 amended: Parse(pos) returns true exactly when pos is the offset of a
\* page or lies before the end of the list; it returns false for every pos
\* from Size() on, the end of the last page included (unless a page starts
\* there), and on a list without pages.  When it returns false, and when pos
\* is the offset of a page, the list is unchanged.
C35_ParseFalseFromEnd ==
    AfterParse =>
        /\ last.ret <=> \/ last.new_pos \in PageOffsets(last.old.pages)
                        \/ (0 <= last.new_pos /\ last.new_pos < Size(last.old.pages))
        /\ ~last.ret => Self = last.old
        /\ last.new_pos \in PageOffsets(last.old.pages) => Self = last.old

\* Parse at the end of a list that holds bytes has returned false.
C35_Witness ==
    /\ AfterParse
    /\ 0 < Size(last.old.pages)
    /\ last.new_pos = Size(last.old.pages)
    /\ ~last.ret


\* pgs with its i-th page cut in two at pos, both halves with the flags of
\* that page.
CutAt(pgs, i, pos) ==
    SubSeq(pgs, 1, i - 1)
    \o << fdpage(pgs[i].offset, pos - pgs[i].offset, pgs[i].loaded, pgs[i].modified),
          fdpage(pos, next(pgs[i]) - pos, pgs[i].loaded, pgs[i].modified) >>
    \o SubSeq(pgs, i + 1, Len(pgs))

\* C36: Parse(p) keeps Size(), the shrunk flag and the flags of every byte;
\* where it changes the list it replaces one page by two pages that meet at p
\* and carry the flags of that page; and a second Parse(p) changes nothing.
C36_ParsePreserves ==
    AfterParse =>
        LET old == last.old.pages IN
        /\ Size(pages) = Size(old)
        /\ is_shrink = last.old.is_shrink
        /\ \A b \in 0..Size(old) : FlagsAt(pages, b) = FlagsAt(old, b)
        /\ pages # old =>
               \E i \in 1..Len(old) :
                   /\ old[i].offset < last.new_pos
                   /\ last.new_pos < next(old[i])
                   /\ pages = CutAt(old, i, last.new_pos)
        /\ Parse(Self, last.new_pos) = Self

\* Parse has split a page that was loaded or modified.
C36_Witness ==
    /\ AfterParse
    /\ Len(pages) = Len(last.old.pages) + 1
    /\ \E i \in 1..Len(pages) :
           /\ next(pages[i]) = last.new_pos
           /\ pages[i].loaded \/ pages[i].modified


\* Compress() has just run on the list last.old.
CompressCalled == last.op = "Compress"

\* C37: Compress keeps Size(), the shrunk flag and the flags of every byte,
\* leaves a list of one zero-length page as it is, and a second Compress
\* changes nothing.
C37_CompressPreserves ==
    CompressCalled =>
        LET old == last.old.pages IN
        /\ Size(pages) = Size(old)
        /\ is_shrink = last.old.is_shrink
        /\ \A b \in 0..Size(old) : FlagsAt(pages, b) = FlagsAt(old, b)
        /\ (Len(old) = 1 /\ old[1].bytes = 0) => pages = old
        /\ Compress(Self) = Self

\* Compress has merged pages of a list of which some byte is loaded or
\* modified.
C37_Witness ==
    /\ CompressCalled
    /\ Len(pages) < Len(last.old.pages)
    /\ 1 < Len(pages)
    /\ \E i \in 1..Len(pages) : pages[i].loaded \/ pages[i].modified

\* Compress has run on the list of one zero-length page.
C37_WitnessZero ==
    /\ CompressCalled
    /\ Len(last.old.pages) = 1
    /\ last.old.pages[1].bytes = 0


\* SetPageLoadedStatus(start, size, status, true) has just run on last.old.
AfterSetStatusCompressed == last.op = "SetPageLoadedStatus" /\ last.is_compress

\* C38: SetPageLoadedStatus(start, size, status, compress = true) is
\* idempotent: the same call on its own result leaves the page list and the
\* shrunk flag as they are.
C38_SetStatusIdempotent ==
    AfterSetStatusCompressed =>
        SetPageLoadedStatus(Self, last.start, last.size, last.pstatus, TRUE) = Self

\* The call has changed a list whose end lay inside the range, behind its
\* first byte.
C38_Witness ==
    /\ AfterSetStatusCompressed
    /\ last.start < Size(last.old.pages)
    /\ Size(last.old.pages) < last.start + last.size
    /\ Self # last.old

\* The call has run with a range that starts beyond the end of the list.
C38_WitnessBeyond ==
    /\ AfterSetStatusCompressed
    /\ Size(last.old.pages) < last.start
    /\ 0 < last.size


\* The bytes of pgs inside the range that are neither loaded nor modified.
UnloadedBytes(pgs, start, size) ==
    { b \in 0..(Size(pgs) - 1) :
        /\ InRange(b, start, size)
        /\ \E i \in 1..Len(pgs) : InPage(pgs[i], b) /\ ~pgs[i].loaded /\ ~pgs[i].modified }

\* C39: GetUnloadedPages(start, length) with an empty list to fill gives
\* pages that are all (false, false), in increasing order with at least one
\* byte between two of them, inside [start, start+length) (length 0: to the
\* end of the list), that hold exactly the bytes of the range that are
\* neither loaded nor modified; their lengths add up to
\* GetTotalUnloadedPageSize(start, length, 0).
C39_UnloadedPages ==
    \A start \in RangeStarts, size \in RangeSizes :
        LET out == GetUnloadedPages(pages, <<>>, start, size) IN
        /\ \A i \in 1..Len(out) :
               /\ ~out[i].loaded /\ ~out[i].modified
               /\ start <= out[i].offset
               /\ \A b \in out[i].offset..(next(out[i]) - 1) : InRange(b, start, size)
        /\ \A i \in 1..(Len(out) - 1) : next(out[i]) < out[i + 1].offset
        /\ BytesOf(out) = UnloadedBytes(pages, start, size)
        /\ Cardinality(BytesOf(out)) = GetTotalUnloadedPageSize(pages, start, size, 0)

\* The list has two unloaded, unmodified pages side by side and a loaded page
\* behind them: asked for the whole list, GetUnloadedPages gives the two as
\* one page, and asked for a range that ends behind the list, what is left of
\* it inside the list.
C39_Witness ==
    /\ Len(pages) = 4
    /\ ~pages[1].loaded /\ ~pages[1].modified
    /\ ~pages[2].loaded /\ ~pages[2].modified
    /\ pages[3].loaded
    /\ ~pages[4].loaded /\ ~pages[4].modified
    /\ GetUnloadedPages(pages, <<>>, 0, 0)
           = << fdpage(0, pages[3].offset, FALSE, FALSE), pages[4] >>
    /\ Len(GetUnloadedPages(pages, <<>>, 1, Size(pages))) = 2


\* Deserialize(inode) has read the file that Serialize(inode) wrote of the
\* list last.old.
WrittenAndRead ==
    /\ last.op = "Deserialize"
    /\ last.after.op = "Serialize"
    /\ last.inode = last.after.inode
    /\ last.file.io = "ok"

\* C40 as stated: IsModified() after Serialize(inode) and Deserialize(inode)
\* is what it was before Serialize, also where the only change to commit is
\* a truncation kept in the shrunk flag.
C40_IsModifiedSurvives ==
    WrittenAndRead => IsModified(Self) = IsModified(last.old)


====
